---- MODULE Spec2Model ----
(***************************************************************************)
(* State-machine model of the market-data core of nse-wireframe:           *)
(*   - SignalMonitorService.check_and_notify and its callers               *)
(*     (backend/services/signal_monitor.py, backend/routers/               *)
(*     notifications.py);                                                  *)
(*   - UpstoxService.subscribe_price_stream                                *)
(*     (backend/services/upstox_service.py);                               *)
(*   - UpstoxService.calculate_trading_signal (the same file);             *)
(*   - UpstoxService.calculate_rsi and calculate_bollinger_bands;          *)
(*   - StopLossMonitorService.check_stop_losses                            *)
(*     (backend/services/stop_loss_monitor.py);                            *)
(*   - AlertService.check_bollinger_band_crosses                           *)
(*     (backend/services/alert_service.py);                                *)
(*   - start_monitoring, monitor_loop and stop_monitoring of the two       *)
(*     monitor services;                                                   *)
(*   - TradeJournalService.log_trade and close_trade                       *)
(*     (backend/services/trade_journal.py) and                             *)
(*     StopLossMonitorService.check_and_alert;                             *)
(*   - SignalMonitorService.get_current_signals with list_stocks           *)
(*     (backend/routers/stocks.py);                                        *)
(*   - is_market_open (backend/services/upstox_service.py).                *)
(* The subsystems share no state; each has its own specifications.         *)
(***************************************************************************)
EXTENDS Integers, Sequences, FiniteSets, TLC

(***************************************************************************)
(* Bounds of the model.                                                    *)
(***************************************************************************)
NSymbols == 2          \* watchlist symbols 1..NSymbols of the sequential spec
NRaceSymbols == 1      \* watchlist symbols of the concurrent spec
NBatchSymbols == 4     \* watchlist symbols of the many-changes spec
MaxMinutes == 6        \* the clock of the timed spec stops here
NKeys == 2             \* instrument keys 1..NKeys
NPrices == 1           \* last traded prices 1..NPrices
MaxAttempts == 2       \* authorize calls of one subscription
MaxRetryAttempts == 7  \* the same where failure streaks are followed
MaxFrames == 2         \* ticks decoded by one subscription
MaxTrades == 3         \* open trades of one symbol in the journal
NBandSymbols == 1      \* symbols 1..NBandSymbols of the band-cross detector
MaxBandMinutes == 6    \* the clock of the band-cross detector stops here
MaxSeries == 4         \* prices of a series given to an indicator
MaxPrice == 3          \* its prices are 1..MaxPrice
MaxPeriod == 3         \* its period is 1..MaxPeriod
MaxTasks == 3          \* loop tasks created, by both services
MaxFollowedTasks == 1  \* the same where their iterations are followed
MaxPolls == 2          \* stop-loss alerts counted for one symbol
MaxWatchlist == 21     \* symbols of the watchlist given to list_stocks

(***************************************************************************)
(* Program constants.                                                      *)
(***************************************************************************)
ConfLo == 2            \* smallest confidence of a BUY/SELL signal
MaxIndividual == 3     \* changes[:3]
SecondsPerMinute == 60
CooldownSeconds == 300 \* the 5 minute cooldown between alerts for a symbol
max_retries == 5       \* subscribe_price_stream: max_retries = 5
base_delay == 2        \* subscribe_price_stream: base_delay = 2, seconds
std_dev == 2           \* calculate_bollinger_bands: std_dev = 2.0
limit == 20            \* list_stocks: limit: int = 20

VARIABLES
    \* ---- signal monitor: program state
    last_signals,      \* watchlist.json['last_signals']: dict symbol -> signal
    chat_configured,   \* load_telegram_config() has a chat_id
    monitoring,        \* SignalMonitorService.monitoring
    now,               \* wall clock, in minutes
    cpc,               \* per caller: position inside check_and_notify
    current_signals,   \* per caller: local current_signals
    changes,           \* per caller: local changes (list of change dicts)
    sent,              \* per caller: send_message calls made for changes[:3]
    store_writable,    \* watchlist.json can be written now
    \* ---- signal monitor: what the last step did (off after any other step)
    ev_detect,         \* a detection: evaluation, stored signals, changes
    ev_notify,         \* a notification handed to telegram_bot.send_message
    ev_finish,         \* a check returned
    \* ---- signal monitor: history (never read by the program)
    prev_run,          \* the evaluation of the last check that returned
    last_seen_dir,     \* per symbol: direction when it was last stored
    notified_new,      \* per symbol: new signals notified since the last save
    last_alert_time,   \* per symbol: minute of its last notification
    delivery,          \* per caller, for its running (or last) check: the
                       \* send_message calls made per symbol, and whether
                       \* one of them returned False
    tracked            \* the history variables this specification keeps

VARIABLES
    \* ---- price stream: program state
    market_open,       \* what is_market_open() returns now
    last_tick_cache,   \* UpstoxService.last_tick_cache: dict key -> tick
    spc,               \* position inside subscribe_price_stream; "idle"
                       \* and "raised": no stream runs (the last one
                       \* returned or was left, or raised)
    instrument_keys,   \* its argument
    retry_count,       \* its local retry_count
    wait_time,         \* its local wait_time, in seconds; 0 before the
                       \* first failure
    ki,                \* index of a "for key in instrument_keys" loop
    \* ---- price stream: what the last step did
    ev_yield,          \* a tick yielded to the consumer (on), or the path
                       \* "malformed" (a frame skipped) or "failed" (an
                       \* except branch of the retry loop taken)
    \* ---- price stream: history of the running (or last) subscription
    attempts,          \* authorize calls made
    frames,            \* ticks decoded
    yielded,           \* per key: ticks replayed from the cache
    started_closed,    \* the gate was closed when the stream started
    gate_exit,         \* the receive loop was left because the gate closed
    gate_stayed_open,  \* (tracked) the gate has been open since the start
    fail_streak,       \* (tracked) failed attempts since the last tick
    skipped,           \* (tracked) a frame was skipped on this connection
    received,          \* (tracked) the <<key, ltp>> decoded from the feed
    conn_failures,     \* (tracked) failed attempts since the websocket
                       \* last connected
    last_decoded       \* (tracked) per key: the ltp of the tick decoded
                       \* last, by any subscription

VARIABLES
    \* ---- calculate_trading_signal: one call
    inputs,            \* its arguments
    calc_result,       \* the signal it returned, NoResult before the call
    \* ---- check_stop_losses: one call
    journal,           \* trades.json: per symbol, its open trades
    quotes_data,       \* per symbol, the last_price of its quote or NoQuote
    price_fetch,       \* how _get_current_prices ends
    stop_loss_hits,    \* the hits it returned
    slpc,              \* "idle" before the call, "returned" after it
    alerts_sent        \* history: per symbol, the stop-loss alerts sent

VARIABLES
    \* ---- check_bollinger_band_crosses: program state
    active_alerts,     \* AlertService.active_alerts: per symbol, its state
    alert_clock,       \* datetime.now(), in minutes
    \* ---- what the last step did
    ev_cross,          \* a call: its zone, whether it returned an alert
    \* ---- history
    last_zone,         \* per symbol: the zone of its last observation
    last_cross_alert,  \* per symbol: minute of the last alert returned
    within_since       \* per symbol: seen within the bands since that alert

VARIABLES
    \* ---- calculate_rsi, calculate_bollinger_bands: one call of each
    series,            \* the argument prices
    period,            \* the argument period
    rsi,               \* the RSI returned, in tenths; NoRsi before the call
    bands              \* the bands returned, in hundredths; NoBands before

VARIABLES
    \* ---- the background loops of the two monitor services: program state
    svc_monitoring,    \* per service: its attribute monitoring
    monitor_task,      \* per service: its attribute monitor_task
    tasks,             \* per service: the loop tasks created so far
    stop_waiting,      \* the stop_monitoring calls suspended at
                       \* "await self.monitor_task": <<service, task>>
    \* ---- history
    stopped            \* per service: the tasks a returned stop_monitoring
                       \* call had found in monitor_task

VARIABLES
    \* ---- get_current_signals and list_stocks: one call
    watchlist,         \* watchlist.json['symbols']
    quoted,            \* the symbols the broker has a quote for
    evaluated,         \* the symbols of the current_signals returned
    wlpc,              \* "idle" before the call, "returned" after it
    \* ---- is_market_open: one call
    gate_now,          \* what datetime.now() returns
    gate_answer,       \* what the call returned
    gatepc             \* "idle" before the call, "returned" after it

streamVars == <<market_open, last_tick_cache, spc, instrument_keys,
                retry_count, ki, ev_yield, attempts, frames, yielded,
                started_closed, gate_exit, gate_stayed_open, fail_streak,
                skipped, received, wait_time, conn_failures, last_decoded>>

sigVars == <<last_signals, chat_configured, monitoring, now, cpc,
             current_signals, changes, sent, ev_detect, ev_notify, ev_finish,
             prev_run, last_seen_dir, notified_new, last_alert_time, tracked,
             store_writable, delivery>>

calcVars == <<inputs, calc_result>>

slVars ==
    <<journal, quotes_data, price_fetch, stop_loss_hits, slpc, alerts_sent>>

bandVars == <<active_alerts, alert_clock, ev_cross, last_zone,
              last_cross_alert, within_since>>

numVars == <<series, period, rsi, bands>>

loopVars == <<svc_monitoring, monitor_task, tasks, stop_waiting, stopped>>

wlVars == <<watchlist, quoted, evaluated, wlpc>>

gateVars == <<gate_now, gate_answer, gatepc>>

restVars == <<wlVars, gateVars>>

otherVars == <<bandVars, numVars, loopVars, restVars>>

\* the variables neither the signal monitor nor the price stream touches
pureVars == <<calcVars, slVars, otherVars>>

vars == <<sigVars, streamVars, calcVars, slVars, otherVars>>

(***************************************************************************)
(* Values.                                                                 *)
(***************************************************************************)
AllSymbols == 1..NBatchSymbols
Callers == {"monitor_loop", "check_signals_now"}
NoTime == 0 - 1         \* "never", below every minute of the clock
EmptyDict == [x \in {} |-> 0]

Hold == [direction |-> "HOLD", confidence |-> 0]
Sig(d, c) == [direction |-> d, confidence |-> c]

\* What calculate_trading_signal can put in stock['signal']: HOLD has
\* confidence 0, BUY and SELL have a positive integer confidence.
SignalValues ==
    {Hold} \cup {Sig(d, c) : d \in {"BUY", "SELL"}, c \in {ConfLo, ConfLo + 1}}

\* The dicts get_current_signals can return over the symbols U with signals
\* V: one entry per stock that list_stocks found a quote for; {} also stands
\* for the except branch (service not configured, fetch failed).
Evaluations(U, V) == UNION {[D -> V] : D \in SUBSET U}

\* dict.get(key, default)
DictGet(d, k, default) == IF k \in DOMAIN d THEN d[k] ELSE default

Abs(x) == IF x < 0 THEN -x ELSE x
Min(a, b) == IF a < b THEN a ELSE b

Max(a, b) == IF a > b THEN a ELSE b

\* round(): the nearest whole number to num / den (den > 0, num >= 0), the
\* even one of the two when num / den lies halfway between them.
Round(num, den) ==
    LET q == (2 * num + den) \div (2 * den)
    IN  IF (2 * num + den) % (2 * den) = 0 /\ q % 2 = 1 THEN q - 1 ELSE q

(***************************************************************************)
(* detect_signal_changes: one change dict per symbol of current_signals,   *)
(* in the dict's (sorted symbol) order, whose direction or confidence      *)
(* differs from the stored signal.                                         *)
(***************************************************************************)
DirectionChanged(last_signal, current_signal) ==
    LET last_direction == DictGet(last_signal, "direction", "UNKNOWN")
        current_direction == DictGet(current_signal, "direction", "HOLD")
    IN  last_direction # current_direction /\ last_direction # "UNKNOWN"

\* The confidence test without its "a signal is stored" guard.
ConfidenceChanged_NoStoredGuard(last_signal, current_signal) ==
    LET last_confidence == DictGet(last_signal, "confidence", 0)
        current_confidence == DictGet(current_signal, "confidence", 0)
    IN  Abs(current_confidence - last_confidence) >= 1

ConfidenceChanged(last_signal, current_signal) ==
    LET last_direction == DictGet(last_signal, "direction", "UNKNOWN")
        last_confidence == DictGet(last_signal, "confidence", 0)
        current_confidence == DictGet(current_signal, "confidence", 0)
    IN  Abs(current_confidence - last_confidence) >= 1
        /\ last_direction # "UNKNOWN"

RECURSIVE DetectFrom(_, _, _)
DetectFrom(cur, cached_signals, s) ==
    IF s > NBatchSymbols THEN <<>>
    ELSE LET rest == DetectFrom(cur, cached_signals, s + 1)
         IN  IF s \notin DOMAIN cur THEN rest
             ELSE LET last_signal == DictGet(cached_signals, s, EmptyDict)
                      dc == DirectionChanged(last_signal, cur[s])
                      cc == ConfidenceChanged(last_signal, cur[s])
                  IN  IF dc \/ cc
                      THEN <<[symbol |-> s,
                              old_signal |-> last_signal,
                              new_signal |-> cur[s],
                              direction_changed |-> dc,
                              confidence_changed |-> cc]>> \o rest
                      ELSE rest

detect_signal_changes(cur, cached_signals) == DetectFrom(cur, cached_signals, 1)

ChangedSymbols(chs) == {chs[i].symbol : i \in 1..Len(chs)}

\* The symbols send_message has been called for in this check.
Attempted(chs, n) == {chs[i].symbol : i \in 1..n}

\* check_and_notify, lines 310-313: what is written back to
\* watchlist.json['last_signals'] once the notifications are done.
SavedSignals_KeepStored(stored, cur) ==
    [s \in DOMAIN cur |-> IF s \in DOMAIN stored THEN stored[s] ELSE cur[s]]

SavedSignals(stored, cur) == cur

\* send_signal_notifications, line 220: the changes that get a message of
\* their own.
IndividualCount(chs) == Min(Len(chs), MaxIndividual)

(***************************************************************************)
(* Initial state: nothing stored, monitoring off, no check running.        *)
(***************************************************************************)
NoDetect == [on |-> FALSE, cur |-> EmptyDict, stored |-> EmptyDict,
             changed |-> {}, alone |-> TRUE, prev |-> [ran |-> FALSE,
                                                        cur |-> EmptyDict]]
NoNotify == [on |-> FALSE, symbol |-> 0, had_old |-> FALSE, old_signal |-> Hold,
             new_signal |-> Hold, at |-> NoTime, prev_at |-> NoTime,
             repeated |-> FALSE]
NoFinish == [on |-> FALSE, cur |-> EmptyDict, changed |-> {}, attempted |-> {},
             saved |-> FALSE, seen |-> [s \in AllSymbols |-> "NONE"],
             caller |-> "none", returned |-> 0]
NoDelivery == [failed |-> FALSE, attempts |-> [s \in AllSymbols |-> 0]]

SigInit ==
    /\ last_signals = EmptyDict
    /\ chat_configured = TRUE
    /\ monitoring = FALSE
    /\ now = 0
    /\ cpc = [p \in Callers |-> "idle"]
    /\ current_signals = [p \in Callers |-> EmptyDict]
    /\ changes = [p \in Callers |-> <<>>]
    /\ sent = [p \in Callers |-> 0]
    /\ ev_detect = NoDetect
    /\ ev_notify = NoNotify
    /\ ev_finish = NoFinish
    /\ prev_run = [ran |-> FALSE, cur |-> EmptyDict]
    /\ last_seen_dir = [s \in AllSymbols |-> "NONE"]
    /\ notified_new = [s \in AllSymbols |-> {}]
    /\ last_alert_time = [s \in AllSymbols |-> NoTime]
    /\ store_writable = TRUE
    /\ delivery = [p \in Callers |-> NoDelivery]

(***************************************************************************)
(* The observations one step of a check leaves behind.                     *)
(***************************************************************************)
Notify(ch) ==
    ev_notify' = [on |-> TRUE, symbol |-> ch.symbol,
                  had_old |-> DOMAIN ch.old_signal # {},
                  old_signal |-> IF DOMAIN ch.old_signal # {}
                                 THEN ch.old_signal ELSE Hold,
                  new_signal |-> ch.new_signal,
                  at |-> now, prev_at |-> last_alert_time[ch.symbol],
                  repeated |-> ch.new_signal \in notified_new[ch.symbol]]

\* Lines 293 and 315: the check returns len(changes) (0 when nothing was
\* evaluated).
Finished(p, cur, chs, n, saved) ==
    ev_finish' = [on |-> TRUE, cur |-> cur, changed |-> ChangedSymbols(chs),
                  attempted |-> Attempted(chs, n), saved |-> saved,
                  seen |-> last_seen_dir, caller |-> p, returned |-> Len(chs)]

\* What the send_message calls of caller p's check have done so far (the
\* count stops at 2: "more than once").
Attempt(d, s) == [d EXCEPT !.attempts[s] = Min(@ + 1, 2)]
Outcome(d, success) == [d EXCEPT !.failed = @ \/ ~success]
Delivery(p, d) ==
    delivery' = IF "delivery" \in tracked
                THEN [delivery EXCEPT ![p] = d] ELSE delivery

\* The history variables follow from what the step did.
History ==
    /\ UNCHANGED tracked
    /\ prev_run' = IF "prev_run" \in tracked /\ ev_finish'.on
                   THEN [ran |-> TRUE, cur |-> ev_finish'.cur]
                   ELSE prev_run
    /\ last_seen_dir' =
           IF "last_seen_dir" \in tracked /\ ev_finish'.on /\ ev_finish'.saved
           THEN [s \in AllSymbols |->
                    IF s \in DOMAIN ev_finish'.cur
                    THEN ev_finish'.cur[s].direction ELSE last_seen_dir[s]]
           ELSE last_seen_dir
    /\ notified_new' =
           IF "notified_new" \notin tracked THEN notified_new
           ELSE IF ev_finish'.on /\ ev_finish'.saved
           THEN [s \in AllSymbols |-> {}]
           ELSE IF ev_notify'.on
           THEN [notified_new EXCEPT
                    ![ev_notify'.symbol] = @ \cup {ev_notify'.new_signal}]
           ELSE notified_new
    /\ last_alert_time' =
           IF "last_alert_time" \in tracked /\ ev_notify'.on
           THEN [last_alert_time EXCEPT ![ev_notify'.symbol] = now]
           ELSE last_alert_time

\* The caller's check returns: its locals die.
Return(p) ==
    /\ cpc' = [cpc EXCEPT ![p] = "idle"]
    /\ current_signals' = [current_signals EXCEPT ![p] = EmptyDict]
    /\ changes' = [changes EXCEPT ![p] = <<>>]
    /\ sent' = [sent EXCEPT ![p] = 0]

\* Lines 309-315: load watchlist.json, replace last_signals, save, return.
\* _save_watchlist_with_signals (lines 80-86) logs a failed write and
\* returns: the file keeps what it held.
SaveAndReturn(p, cur, chs, n) ==
    /\ last_signals' = IF store_writable
                       THEN SavedSignals(last_signals, cur) ELSE last_signals
    /\ Finished(p, cur, chs, n, store_writable)
    /\ Return(p)

\* monitor_loop runs only while monitoring; its sleep between two checks
\* (interval_minutes, 1..60) is not measured here.
MayStart(p) ==
    /\ cpc[p] = "idle"
    /\ p = "monitor_loop" => monitoring

(***************************************************************************)
(* check_and_notify up to its first suspension point.  list_stocks and     *)
(* get_ma_crossover_signals do blocking I/O only, so the evaluation, the   *)
(* detection and (when there is something to send) the first send_message  *)
(* call happen without any other task running in between.                  *)
(***************************************************************************)
CheckStart(p, cur) ==
    /\ MayStart(p)
    /\ LET chs == IF cur = EmptyDict THEN <<>>
                  ELSE detect_signal_changes(cur, last_signals) IN
       /\ ev_detect' = [on |-> TRUE, cur |-> cur, stored |-> last_signals,
                        changed |-> ChangedSymbols(chs),
                        alone |-> \A q \in Callers : cpc[q] = "idle",
                        prev |-> prev_run]
       /\ IF cur = EmptyDict
          THEN \* line 292: if not current_signals: return 0
               /\ Finished(p, cur, chs, 0, FALSE)
               /\ Return(p)
               /\ ev_notify' = NoNotify
               /\ Delivery(p, NoDelivery)
               /\ UNCHANGED last_signals
          ELSE IF chs = <<>> \/ ~chat_configured
          THEN \* nothing to send, or "No Telegram chat configured"
               /\ SaveAndReturn(p, cur, chs, 0)
               /\ ev_notify' = NoNotify
               /\ Delivery(p, NoDelivery)
          ELSE \* first send_message call; the coroutine is suspended in it
               /\ Notify(chs[1])
               /\ Delivery(p, Attempt(NoDelivery, chs[1].symbol))
               /\ cpc' = [cpc EXCEPT ![p] = "send"]
               /\ current_signals' = [current_signals EXCEPT ![p] = cur]
               /\ changes' = [changes EXCEPT ![p] = chs]
               /\ sent' = [sent EXCEPT ![p] = 1]
               /\ ev_finish' = NoFinish
               /\ UNCHANGED last_signals
    /\ UNCHANGED <<chat_configured, monitoring, now, store_writable>>
    /\ History
    /\ UNCHANGED <<streamVars, pureVars>>

(***************************************************************************)
(* A send_message call returns True (delivered) or False (lines 593-610 of  *)
(* telegram_bot.py: the bot is not running, or the request raised): the    *)
(* result is only logged.  The loop over changes[:3] calls send_message    *)
(* for the next change, then once more for the summary when more than      *)
(* three changed, and then the signals are saved.                          *)
(***************************************************************************)
\* Lines 220-226: the change the loop turns to after the n-th one.
next_change_Retry(n, success) == IF success THEN n + 1 ELSE n

next_change(n, success) == n + 1

SendResult(p, success) ==
    /\ cpc[p] \in {"send", "summary"}
    /\ ev_detect' = NoDetect
    /\ LET chs == changes[p]
           d == Outcome(delivery[p], success)
           next == next_change(sent[p], success) IN
       IF cpc[p] = "send" /\ next <= IndividualCount(chs)
       THEN /\ Notify(chs[next])
            /\ sent' = [sent EXCEPT ![p] = next]
            /\ Delivery(p, Attempt(d, chs[next].symbol))
            /\ ev_finish' = NoFinish
            /\ UNCHANGED <<last_signals, cpc, current_signals, changes>>
       ELSE IF cpc[p] = "send" /\ Len(chs) > MaxIndividual
       THEN /\ cpc' = [cpc EXCEPT ![p] = "summary"]
            /\ ev_notify' = NoNotify
            /\ ev_finish' = NoFinish
            /\ Delivery(p, d)
            /\ UNCHANGED <<last_signals, current_signals, changes, sent>>
       ELSE /\ SaveAndReturn(p, current_signals[p], chs, sent[p])
            /\ ev_notify' = NoNotify
            /\ Delivery(p, d)
    /\ UNCHANGED <<chat_configured, monitoring, now, store_writable>>
    /\ History
    /\ UNCHANGED <<streamVars, pureVars>>

SendReturn(p) == \E success \in BOOLEAN : SendResult(p, success)

\* A step of the environment: no check acts, the price stream is untouched.
Quiet ==
    /\ ev_detect' = NoDetect
    /\ ev_notify' = NoNotify
    /\ ev_finish' = NoFinish
    /\ History
    /\ UNCHANGED delivery
    /\ UNCHANGED <<streamVars, pureVars>>

\* start_monitoring: the loop task is created.
StartMonitoring ==
    /\ ~monitoring
    /\ monitoring' = TRUE
    /\ Quiet
    /\ UNCHANGED <<last_signals, chat_configured, now, cpc, current_signals,
                   changes, sent, store_writable>>

\* stop_monitoring, lines 346-359: monitoring = False and
\* monitor_task.cancel().  A loop task suspended in send_message is resumed
\* with CancelledError, which the "except Exception" of lines 236, 317 and
\* 340 do not catch: its check is left before line 309, nothing is saved.
StopMonitoring ==
    /\ monitoring
    /\ monitoring' = FALSE
    /\ IF cpc["monitor_loop"] # "idle"
       THEN Return("monitor_loop")
       ELSE UNCHANGED <<cpc, current_signals, changes, sent>>
    /\ Quiet
    /\ UNCHANGED <<last_signals, chat_configured, now, store_writable>>

\* The file watchlist.json becomes unwritable (permissions, a full disk) or
\* writable again.
SetWritable(b) ==
    /\ store_writable # b
    /\ store_writable' = b
    /\ Quiet
    /\ UNCHANGED <<last_signals, chat_configured, monitoring, now, cpc,
                   current_signals, changes, sent>>

\* POST / DELETE /settings/telegram: the chat configuration appears or goes.
SetTelegram(b) ==
    /\ chat_configured # b
    /\ chat_configured' = b
    /\ Quiet
    /\ UNCHANGED <<last_signals, monitoring, now, cpc, current_signals,
                   changes, sent, store_writable>>

\* One minute passes.
Tick ==
    /\ now < MaxMinutes
    /\ now' = now + 1
    /\ Quiet
    /\ UNCHANGED <<last_signals, chat_configured, monitoring, cpc,
                   current_signals, changes, sent, store_writable>>

(***************************************************************************)
(* UpstoxService.subscribe_price_stream.                                   *)
(***************************************************************************)
Keys == 1..NKeys
Prices == 1..NPrices

\* The lists of distinct keys a caller passes (never empty).
KeyLists ==
    {<<k>> : k \in Keys} \cup {x \in Keys \X Keys : x[1] # x[2]}

KeySet(ks) == {ks[i] : i \in 1..Len(ks)}

\* A tick dict: the fields the claims read.  A tick decoded from a frame has
\* no "cached" and no "mock" key (FALSE here).
TickDict(k, p, status, cached, mock) ==
    [instrument_key |-> k, ltp |-> p, market_status |-> status,
     cached |-> cached, mock |-> mock]

\* Lines 54-66: the zero-valued tick for a key without a cached tick.
mock_tick(k) == TickDict(k, 0, "CLOSED", TRUE, TRUE)

\* Lines 901-942, called at line 65 while the mock tick is built.  Line 10
\* imports the class datetime, so datetime.time(15, 30) and
\* datetime.time(9, 15) (lines 922, 928, 932) call the instance method
\* datetime.datetime.time on an int: TypeError on every path.
get_market_status(open) == "TypeError"

\* Lines 48-51: the cached tick as the closed-gate path yields it; the dict
\* in the cache is the one that is changed and yielded.
closed_cached_tick_Unflagged(cached_tick) == cached_tick

closed_cached_tick(cached_tick) == [cached_tick EXCEPT !.cached = TRUE]

\* Lines 224-228: the cached tick as the fallback path yields it.
fallback_tick_KeepStatus(cached_tick, open) ==
    [cached_tick EXCEPT !.cached = TRUE]

fallback_tick(cached_tick, open) ==
    [cached_tick EXCEPT !.cached = TRUE,
                        !.market_status = IF ~open THEN "CLOSED" ELSE "ERROR"]

\* Lines 192-197: the decoded tick is stored in the cache and then tagged
\* OPEN; cache and consumer hold the same dict.
live_tick(k, p) == TickDict(k, p, "OPEN", FALSE, FALSE)

\* Line 194: self.last_tick_cache[key] = tick.
cache_put_KeepFirst(cache, key, tick) ==
    IF key \in DOMAIN cache THEN cache
    ELSE [x \in DOMAIN cache \cup {key} |-> IF x = key THEN tick ELSE cache[x]]

cache_put(cache, key, tick) ==
    [x \in DOMAIN cache \cup {key} |-> IF x = key THEN tick ELSE cache[x]]

\* Line 70: where the stream goes after the closed-gate loop ("return").
AfterClosedEmit_NoReturn == "loop"

AfterClosedEmit == "idle"

\* The specifications that follow failure streaks track fail_streak and
\* gate_stayed_open, and let a subscription make more authorize calls.
FollowsRetries == "fail_streak" \in tracked

AttemptCap == IF FollowsRetries THEN MaxRetryAttempts ELSE MaxAttempts

\* Lines 198-200: where the stream goes after a frame that does not decode
\* ("continue": the top of the receive loop, on the same connection).
AfterSkip_Abort == "loop"

AfterSkip == "recv_check"

\* Line 77: while retry_count < max_retries.
MayRetry(n) == n < max_retries

\* Lines 208 and 214: the delay slept once retry_count has been counted up
\* to n.
backoff_delay(n) == Min(60, base_delay * (2 ^ n))

NoYield == [on |-> FALSE, path |-> "none", tick |-> mock_tick(0)]

StreamInit ==
    /\ market_open \in BOOLEAN
    /\ last_tick_cache = EmptyDict
    /\ spc = "idle"
    /\ instrument_keys = <<>>
    /\ retry_count = 0
    /\ ki = 0
    /\ ev_yield = NoYield
    /\ attempts = 0
    /\ frames = 0
    /\ yielded = [k \in Keys |-> 0]
    /\ started_closed = FALSE
    /\ gate_exit = FALSE
    /\ gate_stayed_open = FALSE
    /\ fail_streak = 0
    /\ skipped = FALSE
    /\ received = {}
    /\ wait_time = 0
    /\ conn_failures = 0
    /\ last_decoded = EmptyDict

Yield(path, tick) ==
    /\ ev_yield' = [on |-> TRUE, path |-> path, tick |-> tick]
    /\ yielded' = IF path \in {"closed", "fallback"}
                  THEN [yielded EXCEPT ![tick.instrument_key] = @ + 1]
                  ELSE yielded

NoYieldNow == ev_yield' = NoYield /\ UNCHANGED yielded

\* Nothing is yielded; the step took the path named.
Marker(path) ==
    ev_yield' = [NoYield EXCEPT !.path = path] /\ UNCHANGED yielded

\* The stream is started: lines 41-45 and 72-75.
Subscribe(ks) ==
    /\ UNCHANGED <<sigVars, pureVars>>
    /\ spc \in {"idle", "raised"}
    /\ instrument_keys' = ks
    /\ retry_count' = 0
    /\ ki' = 1
    /\ spc' = IF ~market_open THEN "closed_emit" ELSE "loop"
    /\ ev_yield' = NoYield
    /\ attempts' = 0
    /\ frames' = 0
    /\ yielded' = [k \in Keys |-> 0]
    /\ started_closed' = ~market_open
    /\ gate_exit' = FALSE
    /\ gate_stayed_open' = (FollowsRetries /\ market_open)
    /\ fail_streak' = 0
    /\ skipped' = FALSE
    /\ wait_time' = 0
    /\ conn_failures' = 0
    /\ UNCHANGED <<market_open, last_tick_cache, received, last_decoded>>

\* Lines 46-70: one iteration of the closed-gate loop, or its end.
ClosedEmit ==
    /\ UNCHANGED <<sigVars, pureVars>>
    /\ UNCHANGED <<wait_time, conn_failures, last_decoded>>
    /\ spc = "closed_emit"
    /\ IF ki > Len(instrument_keys)
       THEN /\ spc' = AfterClosedEmit
            /\ NoYieldNow
            /\ UNCHANGED <<last_tick_cache, ki>>
       ELSE LET key == instrument_keys[ki] IN
            /\ IF key \in DOMAIN last_tick_cache
               THEN LET t == closed_cached_tick(last_tick_cache[key]) IN
                    /\ last_tick_cache' = [last_tick_cache EXCEPT ![key] = t]
                    /\ Yield("closed", t)
                    /\ ki' = ki + 1
                    /\ UNCHANGED spc
               ELSE IF get_market_status(market_open) = "TypeError"
               THEN \* the exception leaves the generator (no try here)
                    /\ spc' = "raised"
                    /\ NoYieldNow
                    /\ UNCHANGED <<last_tick_cache, ki>>
               ELSE /\ Yield("closed", mock_tick(key))
                    /\ ki' = ki + 1
                    /\ UNCHANGED <<last_tick_cache, spc>>
    /\ UNCHANGED <<market_open, instrument_keys, retry_count, attempts, frames,
                   started_closed, gate_exit, gate_stayed_open, fail_streak,
                   skipped, received>>

\* Lines 202-216: the two except branches.  A ConnectionClosedError with the
\* gate closed leaves the retry loop; everything else counts a retry and
\* sleeps.
Failed(kind) ==
    /\ Marker("failed")
    /\ fail_streak' = IF FollowsRetries THEN fail_streak + 1 ELSE fail_streak
    /\ conn_failures' = IF "conn_failures" \in tracked
                        THEN conn_failures + 1 ELSE conn_failures
    /\ IF kind = "ConnectionClosedError" /\ ~market_open
       THEN /\ spc' = "fallback"
            /\ ki' = 1
            /\ UNCHANGED <<retry_count, wait_time>>
       ELSE /\ retry_count' = retry_count + 1
            /\ wait_time' = backoff_delay(retry_count + 1)
            /\ spc' = "backoff"
            /\ UNCHANGED ki

\* Lines 77-97: the loop condition and the authorize call.
Authorize(ok) ==
    /\ UNCHANGED <<sigVars, pureVars>>
    /\ spc = "loop"
    /\ MayRetry(retry_count)
    /\ attempts < AttemptCap
    /\ attempts' = attempts + 1
    /\ IF ok
       THEN \* line 97: retry_count = 0, then websockets.connect
            /\ retry_count' = 0
            /\ spc' = "connect"
            /\ NoYieldNow
            /\ UNCHANGED <<ki, fail_streak, wait_time, conn_failures>>
       ELSE Failed("Exception")
    /\ UNCHANGED <<market_open, last_tick_cache, instrument_keys, frames,
                   started_closed, gate_exit, gate_stayed_open, skipped,
                   received, last_decoded>>

\* Lines 218-222: the retry loop ends because retry_count reached max_retries.
RetriesExhausted ==
    /\ UNCHANGED <<sigVars, pureVars>>
    /\ UNCHANGED <<wait_time, conn_failures, last_decoded>>
    /\ spc = "loop"
    /\ ~MayRetry(retry_count)
    /\ spc' = "fallback"
    /\ ki' = 1
    /\ NoYieldNow
    /\ UNCHANGED <<market_open, last_tick_cache, instrument_keys, retry_count,
                   attempts, frames, started_closed, gate_exit,
                   gate_stayed_open, fail_streak,
                   skipped, received>>

\* Lines 101-112: the websocket connects and the subscribe message is sent,
\* or one of the two raises.
Connect(result) ==
    /\ UNCHANGED <<sigVars, pureVars>>
    /\ spc = "connect"
    /\ IF result = "ok"
       THEN /\ spc' = "recv_check"
            /\ skipped' = FALSE
            /\ conn_failures' = 0
            /\ NoYieldNow
            /\ UNCHANGED <<retry_count, ki, fail_streak, wait_time>>
       ELSE Failed(result) /\ UNCHANGED skipped
    /\ UNCHANGED <<market_open, last_tick_cache, instrument_keys, attempts,
                   frames, started_closed, gate_exit, gate_stayed_open,
                   received, last_decoded>>

\* Lines 115-121: the top of the receive loop.  With the gate closed the
\* loop is left by "break": the websocket is closed and control is back at
\* the while of line 77.
RecvCheck ==
    /\ UNCHANGED <<sigVars, pureVars>>
    /\ UNCHANGED <<wait_time, conn_failures, last_decoded>>
    /\ spc = "recv_check"
    /\ IF ~market_open
       THEN spc' = "loop" /\ gate_exit' = TRUE
       ELSE spc' = "recv" /\ UNCHANGED gate_exit
    /\ NoYieldNow
    /\ UNCHANGED <<market_open, last_tick_cache, instrument_keys, retry_count,
                   ki, attempts, frames, started_closed, gate_stayed_open,
                   fail_streak,
                   skipped, received>>

\* Lines 121-197: a frame carrying a feed for key k with price p is decoded,
\* cached and yielded.
RecvTick(k, p) ==
    /\ UNCHANGED <<sigVars, pureVars>>
    /\ spc = "recv"
    /\ frames < MaxFrames
    /\ k \in KeySet(instrument_keys)
    /\ last_tick_cache' = cache_put(last_tick_cache, k, live_tick(k, p))
    /\ Yield("live", live_tick(k, p))
    /\ frames' = frames + 1
    /\ fail_streak' = 0
    /\ spc' = "recv_check"
    /\ received' = IF "received" \in tracked
                   THEN received \cup {<<k, p>>} ELSE received
    /\ last_decoded' =
           IF "received" \in tracked
           THEN [x \in DOMAIN last_decoded \cup {k} |->
                    IF x = k THEN p ELSE last_decoded[x]]
           ELSE last_decoded
    /\ UNCHANGED <<market_open, instrument_keys, retry_count, ki, attempts,
                   started_closed, gate_exit, gate_stayed_open, skipped,
                   wait_time, conn_failures>>

\* Lines 122-134 and 198-200: a frame that does not decode, or that carries
\* no tick, is skipped.
RecvSkip ==
    /\ UNCHANGED <<sigVars, pureVars>>
    /\ UNCHANGED <<wait_time, conn_failures, last_decoded>>
    /\ spc = "recv"
    /\ spc' = AfterSkip
    /\ Marker("malformed")
    /\ skipped' = ("skipped" \in tracked)
    /\ UNCHANGED <<market_open, last_tick_cache, instrument_keys, retry_count,
                   ki, attempts, frames, started_closed, gate_exit,
                   gate_stayed_open, fail_streak, received>>

\* Line 121: ws.recv() raises (the connection dropped).
RecvFail(kind) ==
    /\ UNCHANGED <<sigVars, pureVars>>
    /\ spc = "recv"
    /\ Failed(kind)
    /\ UNCHANGED <<market_open, last_tick_cache, instrument_keys, attempts,
                   frames, started_closed, gate_exit, gate_stayed_open,
                   skipped, received, last_decoded>>

\* Lines 210 and 216: asyncio.sleep(wait_time) returns.
BackoffDone ==
    /\ UNCHANGED <<sigVars, pureVars>>
    /\ UNCHANGED <<wait_time, conn_failures, last_decoded>>
    /\ spc = "backoff"
    /\ spc' = "loop"
    /\ NoYieldNow
    /\ UNCHANGED <<market_open, last_tick_cache, instrument_keys, retry_count,
                   ki, attempts, frames, started_closed, gate_exit,
                   gate_stayed_open, fail_streak,
                   skipped, received>>

\* Lines 223-228: one iteration of the fallback loop, or its end.
Fallback ==
    /\ UNCHANGED <<sigVars, pureVars>>
    /\ UNCHANGED <<wait_time, conn_failures, last_decoded>>
    /\ spc = "fallback"
    /\ IF ki > Len(instrument_keys)
       THEN /\ spc' = "idle"
            /\ NoYieldNow
            /\ UNCHANGED <<last_tick_cache, ki>>
       ELSE LET key == instrument_keys[ki] IN
            /\ IF key \in DOMAIN last_tick_cache
               THEN LET t == fallback_tick(last_tick_cache[key], market_open) IN
                    /\ last_tick_cache' = [last_tick_cache EXCEPT ![key] = t]
                    /\ Yield("fallback", t)
               ELSE /\ NoYieldNow
                    /\ UNCHANGED last_tick_cache
            /\ ki' = ki + 1
            /\ UNCHANGED spc
    /\ UNCHANGED <<market_open, instrument_keys, retry_count, attempts, frames,
                   started_closed, gate_exit, gate_stayed_open, fail_streak,
                   skipped, received>>

\* The consumer stops iterating while the stream is suspended at a yield:
\* sending the tick to its websocket client raised WebSocketDisconnect.
ConsumerLeaves ==
    /\ UNCHANGED <<sigVars, pureVars>>
    /\ UNCHANGED <<wait_time, conn_failures, last_decoded>>
    /\ ev_yield.on
    /\ spc' = "idle"
    /\ NoYieldNow
    /\ UNCHANGED <<market_open, last_tick_cache, instrument_keys, retry_count,
                   ki, attempts, frames, started_closed, gate_exit,
                   gate_stayed_open, fail_streak,
                   skipped, received>>

\* The clock crosses an opening or closing time of the market.
SetMarket(open) ==
    /\ UNCHANGED <<sigVars, pureVars>>
    /\ UNCHANGED <<wait_time, conn_failures, last_decoded>>
    /\ market_open # open
    /\ market_open' = open
    /\ gate_stayed_open' = (gate_stayed_open /\ open)
    /\ NoYieldNow
    /\ UNCHANGED <<last_tick_cache, spc, instrument_keys, retry_count, ki,
                   attempts, frames, started_closed, gate_exit, fail_streak,
                   skipped, received>>

FailureKinds == {"ConnectionClosedError", "Exception"}

(***************************************************************************)
(* UpstoxService.calculate_trading_signal.  Prices, averages and bands     *)
(* are whole numbers of paise (hundredths of a rupee); a comparison with   *)
(* a scaled price (ma20 * 0.998) is made on both sides multiplied by 1000  *)
(* (or by 100), and a Bollinger weight, which the code counts in steps of  *)
(* 0.5, is counted in halves.  The levels returned, which the code rounds  *)
(* to two decimals of a rupee, are whole numbers of paise.                 *)
(***************************************************************************)
NoInput == [current_price |-> 0]
NoResult == [direction |-> "none"]

PriceValues == {990, 1000, 1001, 1030}
RsiValues == {20, 30, 45, 55, 70, 80}
Ma20Values == {1000, 1010}
Ma50Values == {985, 1005}
Ma200Values == {984, 1006}
\* <<bb_upper, bb_middle, bb_lower>>; the defaults 0.0 when there are none
Bands == {<<0, 0, 0>>, <<1020, 1000, 980>>, <<1100, 1000, 900>>,
          <<1005, 995, 985>>}

Inputs ==
    {[current_price |-> p, rsi |-> r, ma20 |-> a, ma50 |-> b, ma200 |-> c,
      bb_upper |-> bb[1], bb_middle |-> bb[2], bb_lower |-> bb[3]] :
        p \in PriceValues, r \in RsiValues, a \in Ma20Values,
        b \in Ma50Values, c \in Ma200Values, bb \in Bands}

buy_condition_1(i) ==
    \/ i.current_price > i.ma50 /\ i.ma50 > i.ma200
    \/ 1000 * i.ma50 >= 999 * i.ma200 /\ i.current_price > i.ma50
buy_condition_2(i) == i.rsi > 40
buy_condition_3(i) == 1000 * i.current_price > 998 * i.ma20

sell_condition_1(i) ==
    \/ i.current_price < i.ma50 /\ i.ma50 < i.ma200
    \/ 1000 * i.ma50 <= 1001 * i.ma200 /\ i.current_price < i.ma50
sell_condition_2(i) == i.rsi < 60
sell_condition_3(i) == 1000 * i.current_price < 1002 * i.ma20

\* sum([c1, c2, c3])
sum(c1, c2, c3) ==
    (IF c1 THEN 1 ELSE 0) + (IF c2 THEN 1 ELSE 0) + (IF c3 THEN 1 ELSE 0)
buy_count(i) == sum(buy_condition_1(i), buy_condition_2(i), buy_condition_3(i))
sell_count(i) ==
    sum(sell_condition_1(i), sell_condition_2(i), sell_condition_3(i))

\* The Bollinger analysis: bb_buy_signals and bb_sell_signals, in halves.
Weights(buy, sell) == [buy |-> buy, sell |-> sell]
bb_signals(i) ==
    IF ~(i.bb_upper > 0 /\ i.bb_lower > 0 /\ i.bb_middle > 0)
    THEN Weights(0, 0)
    ELSE IF 100 * i.current_price <= 102 * i.bb_lower /\ i.rsi < 35
    THEN Weights(4, 0)
    ELSE IF 100 * i.current_price >= 98 * i.bb_upper /\ i.rsi > 65
    THEN Weights(0, 4)
    ELSE IF i.rsi <= 25
    THEN Weights(3, 0)
    ELSE IF i.rsi >= 75
    THEN Weights(0, 3)
    ELSE IF 100 * (i.bb_upper - i.bb_lower) < 10 * i.bb_middle
    THEN IF i.current_price > i.bb_upper /\ buy_condition_1(i)
         THEN Weights(2, 0)
         ELSE IF i.current_price < i.bb_lower /\ sell_condition_1(i)
         THEN Weights(0, 2)
         ELSE Weights(0, 0)
    ELSE IF /\ i.current_price < i.bb_middle
            /\ buy_condition_2(i) /\ buy_condition_3(i)
    THEN Weights(1, 0)
    ELSE IF /\ i.current_price > i.bb_middle
            /\ sell_condition_2(i) /\ sell_condition_3(i)
    THEN Weights(0, 1)
    ELSE Weights(0, 0)

int_Halves(w) == w
\* int(bb_buy_signals): the weight w, given in halves, without its fraction
int(w) == w \div 2

Signal(direction, confidence, sentiment) ==
    [direction |-> direction, confidence |-> confidence,
     sentiment |-> sentiment]

\* "BULLISH" if bb_buy_signals >= 2 else "NEUTRAL"
override_sentiment(w, decisive) == IF w >= 4 THEN decisive ELSE "NEUTRAL"

core_buy_signal_TwoOfThree(i) == buy_count(i) >= 2
core_buy_signal(i) ==
    buy_condition_1(i) /\ buy_condition_2(i) /\ buy_condition_3(i)

core_sell_signal(i) ==
    sell_condition_1(i) /\ sell_condition_2(i) /\ sell_condition_3(i)

\* Lines 779-824.  A product such as bb_lower * 0.98 is a number of
\* hundredths of a paisa (98 * bb_lower); round(x, 2) is Round(x, 100).
buy_sl_Lowest(i) ==
    Round(Min(Min(98 * i.bb_lower, 97 * i.ma20), 96 * i.current_price), 100)

buy_sl(i) ==
    IF i.bb_lower > 0
    THEN Round(Max(Max(98 * i.bb_lower, 97 * i.ma20),
                   96 * i.current_price), 100)
    ELSE Round(Min(97 * i.ma20, 97 * i.current_price), 100)

buy_target(i, confidence, strong_bb_buy) ==
    IF i.bb_upper > 0 /\ strong_bb_buy
    THEN Round(Min(98 * i.bb_upper,
                   i.current_price * (100 + 2 * confidence)), 100)
    ELSE Round(i.current_price * (103 + confidence), 100)

sell_sl(i) ==
    IF i.bb_upper > 0
    THEN Round(Min(Min(102 * i.bb_upper, 103 * i.ma20),
                   104 * i.current_price), 100)
    ELSE Round(Max(103 * i.ma20, 103 * i.current_price), 100)

sell_target(i, confidence, strong_bb_sell) ==
    IF i.bb_lower > 0 /\ strong_bb_sell
    THEN Round(Max(102 * i.bb_lower,
                   i.current_price * (100 - 2 * confidence)), 100)
    ELSE Round(i.current_price * (97 - confidence), 100)

\* lines 816-824
hold_target(i) ==
    IF i.bb_middle > 0
    THEN IF 100 * Abs(i.current_price - i.bb_middle) > 2 * i.current_price
         THEN Round(100 * i.bb_middle, 100)
         ELSE Round(102 * i.current_price, 100)
    ELSE Round(103 * i.current_price, 100)

\* the "signal" returned (lines 826-835): the decision with its levels
WithLevels(i, s, strong_bb_buy, strong_bb_sell) ==
    [direction |-> s.direction, confidence |-> s.confidence,
     sentiment |-> s.sentiment,
     entry |-> Round(100 * i.current_price, 100),
     sl |-> IF s.direction = "BUY" THEN buy_sl(i)
            ELSE IF s.direction = "SELL" THEN sell_sl(i)
            ELSE Round(97 * i.current_price, 100),
     target |-> IF s.direction = "BUY"
                THEN buy_target(i, s.confidence, strong_bb_buy)
                ELSE IF s.direction = "SELL"
                THEN sell_target(i, s.confidence, strong_bb_sell)
                ELSE hold_target(i)]

calculate_trading_signal(i) ==
    LET bb == bb_signals(i)
        strong_bb_buy == bb.buy >= 4
        strong_bb_sell == bb.sell >= 4
    IN  WithLevels(i,
        IF strong_bb_buy /\ buy_count(i) >= 1
        THEN Signal("BUY", 2 + int(bb.buy),
                    override_sentiment(bb.buy, "BULLISH"))
        ELSE IF strong_bb_sell /\ sell_count(i) >= 1
        THEN Signal("SELL", 2 + int(bb.sell),
                    override_sentiment(bb.sell, "BEARISH"))
        ELSE IF core_buy_signal(i)
        THEN Signal("BUY", 3 + Min(int(bb.buy), 2), "BULLISH")
        ELSE IF core_sell_signal(i)
        THEN Signal("SELL", 3 + Min(int(bb.sell), 2), "BEARISH")
        ELSE IF bb.buy >= 2 /\ buy_count(i) >= 2
        THEN Signal("BUY", 2 + int(bb.buy), "NEUTRAL")
        ELSE IF bb.sell >= 2 /\ sell_count(i) >= 2
        THEN Signal("SELL", 2 + int(bb.sell), "NEUTRAL")
        ELSE IF buy_count(i) = 2 /\ i.rsi > 50
        THEN Signal("BUY", 2, "NEUTRAL")
        ELSE IF sell_count(i) = 2 /\ i.rsi < 50
        THEN Signal("SELL", 2, "NEUTRAL")
        ELSE Signal("HOLD", 0, "NEUTRAL"),
        strong_bb_buy, strong_bb_sell)

CalcIdle == inputs = NoInput /\ calc_result = NoResult

\* One call: the signal of the given indicators.
Calculate ==
    /\ calc_result = NoResult
    /\ calc_result' = calculate_trading_signal(inputs)
    /\ UNCHANGED <<inputs, slVars, otherVars, sigVars, streamVars>>

(***************************************************************************)
(* StopLossMonitorService.check_stop_losses.  The trades file of the       *)
(* journal and the quotes of the broker are its inputs.  The open trades   *)
(* of a symbol are listed by entry_time, the most recent last.             *)
(***************************************************************************)
HeldSymbols == {"INFY", "TCS"}
NoQuote == 0 - 1        \* no quote

\* An open trade as log_trade writes it: quantity 1, the stop-loss 3 %
\* under the entry price of a BUY and 3 % over that of a SELL.
OpenTrades ==
    {[action |-> "BUY", entry_price |-> 100, quantity |-> 1, sl |-> 97],
     [action |-> "SELL", entry_price |-> 100, quantity |-> 1, sl |-> 103]}

RECURSIVE TradeLists(_)
TradeLists(n) ==
    IF n = 0 THEN {<<>>}
    ELSE TradeLists(n - 1) \cup
         {Append(l, t) : l \in {x \in TradeLists(n - 1) : Len(x) = n - 1},
                         t \in OpenTrades}

Journals == [HeldSymbols -> TradeLists(MaxTrades)]

\* last_price of a quote; 0 also stands for a quote without last_price
LastPrices == {0, 96, 97, 103, 104}
QuotesData == [HeldSymbols -> LastPrices \cup {NoQuote}]
FetchOutcomes == {"ok", "not_configured", "error"}

\* TradeJournalService.get_all_positions
RECURSIVE position(_)
position(trades) ==
    IF trades = <<>> THEN 0
    ELSE LET t == trades[Len(trades)]
             rest == position(SubSeq(trades, 1, Len(trades) - 1))
         IN  IF t.action = "BUY" THEN rest + t.quantity
             ELSE IF t.action = "SELL" THEN rest - t.quantity
             ELSE rest
get_all_positions(j) ==
    [s \in {x \in DOMAIN j : position(j[x]) # 0} |-> position(j[s])]

\* _get_current_prices: {} unless the quotes were fetched, else the
\* last_price of every symbol that has a quote
get_current_prices(symbols, fetch, quotes) ==
    IF fetch # "ok" THEN << >>
    ELSE [s \in {x \in symbols : quotes[x] # NoQuote} |-> quotes[s]]

\* current_prices.get(symbol, 0)
get(current_prices, symbol) ==
    IF symbol \in DOMAIN current_prices THEN current_prices[symbol] ELSE 0

\* max(symbol_trades, key=entry_time)
recent_trade(symbol_trades) == symbol_trades[Len(symbol_trades)]

no_price_Zero(current_price) == FALSE
\* if current_price == 0: continue
no_price(current_price) == current_price = 0

long_hit_Strict(current_price, sl_price) == current_price < sl_price
long_hit(current_price, sl_price) == current_price <= sl_price

short_hit(current_price, sl_price) == current_price >= sl_price

sl_hit(net_quantity, current_price, sl_price) ==
    IF net_quantity > 0 THEN long_hit(current_price, sl_price)
    ELSE IF net_quantity < 0 THEN short_hit(current_price, sl_price)
    ELSE FALSE

\* round(x, 2) of an amount x of whole paise, of either sign
round_paise(x) ==
    IF x >= 0 THEN Round(100 * x, 100) ELSE 0 - Round(100 * (0 - x), 100)

\* lines 68, 74 and 84
loss_amount(net_quantity, current_price, entry_price) ==
    IF net_quantity > 0
    THEN round_paise((entry_price - current_price) * Abs(net_quantity))
    ELSE round_paise((current_price - entry_price) * Abs(net_quantity))

\* The hits of one check, as a set: the claims do not depend on their order.
check_stop_losses(j, fetch, quotes) ==
    LET all_positions == get_all_positions(j)
        symbols_with_positions == DOMAIN all_positions
        current_prices ==
            get_current_prices(symbols_with_positions, fetch, quotes)
    IN  {[symbol |-> s,
          net_quantity |-> all_positions[s],
          current_price |-> get(current_prices, s),
          sl_price |-> recent_trade(j[s]).sl,
          entry_price |-> recent_trade(j[s]).entry_price,
          loss_amount |->
              loss_amount(all_positions[s], get(current_prices, s),
                          recent_trade(j[s]).entry_price)] :
            s \in {x \in symbols_with_positions :
                     /\ ~no_price(get(current_prices, x))
                     /\ j[x] # <<>>
                     /\ sl_hit(all_positions[x], get(current_prices, x),
                               recent_trade(j[x]).sl)}}

NoAlerts == [s \in HeldSymbols |-> 0]

SlIdle ==
    /\ journal = [s \in HeldSymbols |-> <<>>]
    /\ quotes_data = [s \in HeldSymbols |-> NoQuote]
    /\ price_fetch = "ok"
    /\ stop_loss_hits = {}
    /\ slpc = "idle"
    /\ alerts_sent = NoAlerts

\* One check of the stop-losses.
CheckStopLosses ==
    /\ slpc = "idle"
    /\ stop_loss_hits' = check_stop_losses(journal, price_fetch, quotes_data)
    /\ slpc' = "returned"
    /\ UNCHANGED <<journal, quotes_data, price_fetch, alerts_sent, calcVars,
                   otherVars, sigVars, streamVars>>

\* send_stop_loss_alerts: one send_alert_with_buttons call for every hit;
\* delivered are the symbols whose call returned True.
send_stop_loss_alerts(hits, delivered) ==
    [s \in HeldSymbols |->
        IF s \in {h.symbol : h \in hits} \cap delivered
        THEN alerts_sent[s] + 1 ELSE alerts_sent[s]]

\* check_and_alert, one poll of monitor_loop: the hits of this check are
\* alerted (lines 224-229).
check_and_alert(delivered) ==
    /\ \A s \in HeldSymbols : alerts_sent[s] < MaxPolls
    /\ stop_loss_hits' = check_stop_losses(journal, price_fetch, quotes_data)
    /\ alerts_sent' = send_stop_loss_alerts(stop_loss_hits', delivered)
    /\ slpc' = "returned"
    /\ UNCHANGED <<journal, quotes_data, price_fetch, calcVars, otherVars,
                   sigVars, streamVars>>

(***************************************************************************)
(* TradeJournalService.log_trade and close_trade on the same trades file.  *)
(* Neither has an await: a call is one step.  Prices are whole numbers of  *)
(* paise.  A trade is known by its symbol and its place among the open     *)
(* trades of the symbol; a closed trade counts for no position and for no  *)
(* stop-loss, so the journal keeps the open trades only.  The file holds   *)
(* far fewer than the 1000 records after which log_trade drops the oldest. *)
(***************************************************************************)
TradeActions == {"BUY", "SELL"}
TradePrices == {100, 110}

\* lines 66-93
trade_record(action, price) ==
    [action |-> action, entry_price |-> price, quantity |-> 1,
     sl |-> IF action = "BUY" THEN Round(97 * price, 100)
            ELSE IF action = "SELL" THEN Round(103 * price, 100)
            ELSE price]

get_current_position(j, symbol) == position(j[symbol])

\* lines 59-63: return False
sell_refused(j, symbol, action) ==
    action = "SELL" /\ get_current_position(j, symbol) <= 0

log_trade(symbol, action, price) ==
    /\ slpc = "idle"
    /\ Len(journal[symbol]) < MaxTrades
    /\ journal' =
           IF sell_refused(journal, symbol, action) THEN journal
           ELSE [journal EXCEPT
                     ![symbol] = Append(@, trade_record(action, price))]
    /\ UNCHANGED <<quotes_data, price_fetch, stop_loss_hits, slpc,
                   alerts_sent, calcVars, otherVars, sigVars, streamVars>>

\* the open trades without the k-th
Without(trades, k) ==
    SubSeq(trades, 1, k - 1) \o SubSeq(trades, k + 1, Len(trades))

\* close_trade(trade_id, exit_price): the trade becomes CLOSED if it is
\* open; otherwise nothing changes and False is returned.
close_trade(symbol, k) ==
    /\ slpc = "idle"
    /\ journal' =
           IF k \in DOMAIN journal[symbol]
           THEN [journal EXCEPT ![symbol] = Without(@, k)]
           ELSE journal
    /\ UNCHANGED <<quotes_data, price_fetch, stop_loss_hits, slpc,
                   alerts_sent, calcVars, otherVars, sigVars, streamVars>>

(***************************************************************************)
(* AlertService.check_bollinger_band_crosses.  The function has no await:  *)
(* a call is one step.  The clock counts minutes.                          *)
(***************************************************************************)
BandSymbols == 1..NBandSymbols
BandPrices == {94, 100, 106}
\* <<bb_lower, bb_upper>>; <<0, 0>> are the bands of a series too short
BandPairs == {<<0, 0>>, <<95, 105>>}

\* active_alerts.get(alert_key) of a symbol never observed
NoState == [position |-> "none", last_alert_time |-> NoTime]
NoCross == [on |-> FALSE, symbol |-> 0, position |-> "none",
            alert |-> FALSE, at |-> NoTime, prev_zone |-> "none",
            prev_alert_at |-> NoTime, through_within |-> FALSE]

\* lines 33-58
position_of(current_price, bb_upper, bb_lower) ==
    IF current_price > bb_upper THEN "above_upper"
    ELSE IF current_price < bb_lower THEN "below_lower"
    ELSE "within_bands"

message_raises_Never(zone, bb_upper, bb_lower) == FALSE

\* lines 41 and 52: the message divides by the band the price is beyond
message_raises(zone, bb_upper, bb_lower) ==
    \/ zone = "above_upper" /\ bb_upper = 0
    \/ zone = "below_lower" /\ bb_lower = 0

\* lines 63-68: an alert was returned less than alert_cooldown ago
in_cooldown(prev_state, current_time) ==
    /\ prev_state.last_alert_time # NoTime
    /\ (current_time - prev_state.last_alert_time) * SecondsPerMinute
           < CooldownSeconds

kept_alert_time_Forgotten(prev_state) == NoTime
\* line 93: prev_state.get("last_alert_time") if prev_state else None
kept_alert_time(prev_state) == prev_state.last_alert_time

\* line 71: prev_state.get("position") == position
same_position(prev_state, zone) == prev_state.position = zone

\* What a call returns and stores: <<alert returned, new state>>.
cross_outcome(prev_state, zone, raises, current_time) ==
    IF raises THEN <<FALSE, prev_state>>
    ELSE IF zone = "within_bands"
    THEN <<FALSE, [position |-> zone,
                   last_alert_time |-> kept_alert_time(prev_state)]>>
    ELSE IF /\ prev_state # NoState
            /\ \/ in_cooldown(prev_state, current_time)
               \/ same_position(prev_state, zone)
    THEN <<FALSE, prev_state>>
    ELSE <<TRUE, [position |-> zone, last_alert_time |-> current_time]>>

BandInit ==
    /\ active_alerts = [s \in BandSymbols |-> NoState]
    /\ alert_clock = 0
    /\ ev_cross = NoCross
    /\ last_zone = [s \in BandSymbols |-> "none"]
    /\ last_cross_alert = [s \in BandSymbols |-> NoTime]
    /\ within_since = [s \in BandSymbols |-> FALSE]

check_bollinger_band_crosses(symbol, current_price, bb_upper, bb_lower) ==
    LET zone == position_of(current_price, bb_upper, bb_lower)
        out == cross_outcome(active_alerts[symbol], zone,
                             message_raises(zone, bb_upper, bb_lower),
                             alert_clock)
    IN  /\ active_alerts' = [active_alerts EXCEPT ![symbol] = out[2]]
        /\ ev_cross' = [on |-> TRUE, symbol |-> symbol,
                        position |-> zone, alert |-> out[1],
                        at |-> alert_clock,
                        prev_zone |-> last_zone[symbol],
                        prev_alert_at |-> last_cross_alert[symbol],
                        through_within |-> within_since[symbol]]
        /\ last_zone' = [last_zone EXCEPT ![symbol] = zone]
        /\ last_cross_alert' =
               IF out[1]
               THEN [last_cross_alert EXCEPT ![symbol] = alert_clock]
               ELSE last_cross_alert
        /\ within_since' =
               [within_since EXCEPT
                   ![symbol] = IF out[1] THEN FALSE
                               ELSE @ \/ zone = "within_bands"]
        /\ UNCHANGED alert_clock
        /\ UNCHANGED <<sigVars, streamVars, calcVars, slVars, numVars, loopVars,
                   restVars>>

\* One minute passes.
BandTick ==
    /\ alert_clock < MaxBandMinutes
    /\ alert_clock' = alert_clock + 1
    /\ ev_cross' = NoCross
    /\ UNCHANGED <<active_alerts, last_zone, last_cross_alert, within_since>>
    /\ UNCHANGED <<sigVars, streamVars, calcVars, slVars, numVars, loopVars,
                   restVars>>

(***************************************************************************)
(* UpstoxService.calculate_rsi and calculate_bollinger_bands, in exact     *)
(* arithmetic: prices are whole numbers, an average is a fraction          *)
(* [num, den], the RSI is returned in tenths and a band in hundredths      *)
(* (round(x, 1) and round(x, 2)).                                          *)
(***************************************************************************)
SeriesPrices == 1..MaxPrice
Periods == 1..MaxPeriod

RECURSIVE SeriesUpTo(_)
SeriesUpTo(n) ==
    IF n = 0 THEN {<<>>}
    ELSE SeriesUpTo(n - 1) \cup
         {Append(l, x) : l \in {y \in SeriesUpTo(n - 1) : Len(y) = n - 1},
                         x \in SeriesPrices}

\* the sum of the elements lo..hi of a sequence
RECURSIVE SumOf(_, _, _)
SumOf(x, lo, hi) == IF lo > hi THEN 0 ELSE x[hi] + SumOf(x, lo, hi - 1)

\* calculate_rsi, line 525
price_changes(prices) ==
    [i \in 1..(Len(prices) - 1) |-> prices[i + 1] - prices[i]]
\* lines 528-529
gains(chg) == [i \in DOMAIN chg |-> Max(chg[i], 0)]
losses(chg) == [i \in DOMAIN chg |-> 0 - Min(chg[i], 0)]

\* lines 532-538: sum(x[:period]) / period, each later value then smoothed
\* in; both averages get the same denominator.
RECURSIVE smoothed(_, _, _)
smoothed(x, n, i) ==
    IF i <= n THEN [num |-> SumOf(x, 1, Min(n, Len(x))), den |-> n]
    ELSE LET a == smoothed(x, n, i - 1)
         IN  [num |-> a.num * (n - 1) + x[i] * a.den, den |-> a.den * n]

insufficient_Short(prices, n) == Len(prices) < n
\* line 520: len(prices) < period + 1
insufficient(prices, n) == Len(prices) < n + 1

calculate_rsi(prices, n) ==
    IF insufficient(prices, n) THEN 500
    ELSE LET chg == price_changes(prices)
             avg_gain == smoothed(gains(chg), n, Len(chg))
             avg_loss == smoothed(losses(chg), n, Len(chg))
         IN  IF avg_loss.num = 0 THEN 1000
             ELSE \* 100 - 100 / (1 + avg_gain / avg_loss)
                  Round(1000 * avg_gain.num, avg_gain.num + avg_loss.num)

recent_prices_First(prices, n) == SubSeq(prices, 1, n)
\* calculate_bollinger_bands, line 557: prices[-period:]
recent_prices(prices, n) ==
    SubSeq(prices, Len(prices) - n + 1, Len(prices))

Squares(x) == [i \in DOMAIN x |-> x[i] * x[i]]

\* The hundredths a band can be rounded to.
Hundredths == (0 - 200 * MaxPrice)..(300 * MaxPrice)

\* round(sma + side * std_dev * std, 2) in hundredths, where sma = S / n
\* and std = sqrt(Q) / n with Q = n * sum(p^2) - S^2: the greatest m with
\* (2m - 1) * n - 200 * S <= side * 200 * std_dev * sqrt(Q).
band(S, Q, n, side) ==
    LET B == 200 * std_dev
        A(m) == (2 * m - 1) * n - 200 * S
        Reaches(m) ==
            IF side > 0 THEN A(m) <= 0 \/ A(m) * A(m) <= B * B * Q
            ELSE A(m) <= 0 /\ A(m) * A(m) >= B * B * Q
    IN  CHOOSE m \in Hundredths :
            Reaches(m) /\ (m + 1 \in Hundredths => ~Reaches(m + 1))

Bands3(upper, middle, lower) ==
    [upper |-> upper, middle |-> middle, lower |-> lower]

calculate_bollinger_bands(prices, n) ==
    IF Len(prices) < n THEN Bands3(0, 0, 0)
    ELSE LET recent == recent_prices(prices, n)
             S == SumOf(recent, 1, n)
             Q == n * SumOf(Squares(recent), 1, n) - S * S
         IN  Bands3(band(S, Q, n, 1), Round(100 * S, n), band(S, Q, n, 0 - 1))

NoRsi == 0 - 1
NoBands == [upper |-> "none"]

NumInit ==
    /\ series = <<>>
    /\ period = 1
    /\ rsi = NoRsi
    /\ bands = NoBands

\* One call of calculate_rsi(series, period).
CalculateRsi ==
    /\ rsi = NoRsi
    /\ rsi' = calculate_rsi(series, period)
    /\ UNCHANGED <<series, period, bands>>
    /\ UNCHANGED <<sigVars, streamVars, calcVars, slVars, bandVars, loopVars,
                   restVars>>

\* One call of calculate_bollinger_bands(series, period).
CalculateBollinger ==
    /\ bands = NoBands
    /\ bands' = calculate_bollinger_bands(series, period)
    /\ UNCHANGED <<series, period, rsi>>
    /\ UNCHANGED <<sigVars, streamVars, calcVars, slVars, bandVars, loopVars,
                   restVars>>

(***************************************************************************)
(* The background loops of SignalMonitorService and                        *)
(* StopLossMonitorService: start_monitoring, monitor_loop and              *)
(* stop_monitoring, which have the same code in both services              *)
(* (signal_monitor.py lines 321-359, stop_loss_monitor.py lines 237-275).  *)
(* All of it runs on one event loop: a step goes from one await to the     *)
(* next.                                                                   *)
(***************************************************************************)
Services == {"signal", "stop_loss"}
TaskIds == 1..MaxTasks
NoTask == 0

\* How one call of check_and_notify / check_and_alert goes: an error caught
\* inside it (the market-data service is not configured, list_stocks
\* raises: the check returns 0), nothing to send (it returns 0), or
\* something to send (it is suspended in the send call).
Outcomes == {"error", "quiet", "changes"}

\* A task made by asyncio.create_task(monitor_loop()): where it is
\* suspended and where it was when cancel() was called ("no": never).  The
\* specification that follows the iterations also keeps its local
\* changes_count (hits_count), the parity of the checks it has begun and
\* whether the last of them ended in an error.
NoTaskRec == [pc |-> "none", changes_count |-> 0, cancelled_at |-> "no",
              iter |-> 0, last_error |-> FALSE]

Cancelled(rec) == rec.cancelled_at # "no"

FollowsIterations == "iterations" \in tracked

\* The tasks created so far, by both services.
Created == {x \in Services \X TaskIds : tasks[x[1]][x[2]].pc # "none"}

TaskCap == IF FollowsIterations THEN MaxFollowedTasks ELSE MaxTasks

LoopInit ==
    /\ svc_monitoring = [S \in Services |-> FALSE]
    /\ monitor_task = [S \in Services |-> NoTask]
    /\ tasks = [S \in Services |-> [t \in TaskIds |-> NoTaskRec]]
    /\ stop_waiting = {}
    /\ stopped = [S \in Services |-> {}]

\* Lines 323 / 239: if self.monitoring: return.
already_monitoring_Never(S) == FALSE

already_monitoring(S) == svc_monitoring[S]

\* start_monitoring has no await: the flag is set and the task created in
\* one step.  The task ids stand for the task objects; the model stops
\* creating tasks once TaskCap have been made.
start_monitoring(S) ==
    /\ IF already_monitoring(S)
       THEN UNCHANGED <<svc_monitoring, monitor_task, tasks>>
       ELSE /\ Cardinality(Created) < TaskCap
            /\ LET t == CHOOSE x \in TaskIds :
                          /\ tasks[S][x].pc = "none"
                          /\ \A y \in TaskIds :
                                 tasks[S][y].pc = "none" => x <= y
               IN /\ svc_monitoring' = [svc_monitoring EXCEPT ![S] = TRUE]
                  /\ tasks' = [tasks EXCEPT ![S][t].pc = "created"]
                  /\ monitor_task' = [monitor_task EXCEPT ![S] = t]
    /\ UNCHANGED <<stop_waiting, stopped>>
    /\ UNCHANGED <<sigVars, streamVars, calcVars, slVars, bandVars, numVars,
                   restVars>>

\* Task.cancel(): a task that has not finished is marked; it will be resumed
\* with CancelledError.
cancel(rec) ==
    IF rec.pc \in {"none", "done"} \/ Cancelled(rec) THEN rec
    ELSE [rec EXCEPT !.cancelled_at = rec.pc]

\* stop_monitoring up to its await (lines 348-355 / 264-271): with the flag
\* off it returns at once; otherwise the flag is cleared, the task
\* cancelled and the call waits for the task.
stop_monitoring(S) ==
    /\ IF ~svc_monitoring[S]
       THEN /\ stopped' = IF monitor_task[S] = NoTask THEN stopped
                          ELSE [stopped EXCEPT ![S] = @ \cup {monitor_task[S]}]
            /\ UNCHANGED <<svc_monitoring, tasks, stop_waiting>>
       ELSE /\ svc_monitoring' = [svc_monitoring EXCEPT ![S] = FALSE]
            /\ IF monitor_task[S] = NoTask
               THEN UNCHANGED <<tasks, stop_waiting, stopped>>
               ELSE /\ tasks' = [tasks EXCEPT ![S][monitor_task[S]] = cancel(@)]
                    /\ stop_waiting' = stop_waiting \cup {<<S, monitor_task[S]>>}
                    /\ UNCHANGED stopped
    /\ UNCHANGED monitor_task
    /\ UNCHANGED <<sigVars, streamVars, calcVars, slVars, bandVars, numVars,
                   restVars>>

\* Lines 355-359 / 271-275: the awaited task has finished, stop_monitoring
\* returns.
StopReturns(S, t) ==
    /\ <<S, t>> \in stop_waiting
    /\ tasks[S][t].pc = "done"
    /\ stop_waiting' = stop_waiting \ {<<S, t>>}
    /\ stopped' = [stopped EXCEPT ![S] = @ \cup {t}]
    /\ UNCHANGED <<svc_monitoring, monitor_task, tasks>>
    /\ UNCHANGED <<sigVars, streamVars, calcVars, slVars, bandVars, numVars,
                   restVars>>

\* A cancelled task is resumed: CancelledError is raised at the await it was
\* suspended in (or before its first step).  It is not an Exception: the
\* handlers of lines 236, 317 and 340 (217, 233, 256) let it through and the
\* task ends.
TaskCancelled(S, t) ==
    /\ tasks[S][t].pc \notin {"none", "done"}
    /\ Cancelled(tasks[S][t])
    /\ tasks' = [tasks EXCEPT ![S][t].pc = "done"]
    /\ UNCHANGED <<svc_monitoring, monitor_task, stop_waiting, stopped>>
    /\ UNCHANGED <<sigVars, streamVars, calcVars, slVars, bandVars, numVars,
                   restVars>>

\* Lines 333-338 / 249-254: where the loop is once its check has returned.
after_check_ErrorEnds(outcome) == IF outcome = "error" THEN "done" ELSE "sleep"

after_check(outcome) == "sleep"

\* Lines 331-338 / 247-254: the task runs for the first time, or its sleep
\* has elapsed: the while condition is read and a check is made, up to its
\* return or to the send call it is suspended in.
loop_iteration(S, t, outcome) ==
    /\ tasks[S][t].pc \in {"created", "sleep"}
    /\ ~Cancelled(tasks[S][t])
    /\ IF ~svc_monitoring[S]
       THEN tasks' = [tasks EXCEPT ![S][t].pc = "done"]
       ELSE tasks' = [tasks EXCEPT
                        ![S][t].pc = IF outcome = "changes" THEN "send"
                                     ELSE after_check(outcome),
                        ![S][t].changes_count =
                            IF outcome = "changes" THEN @ ELSE 0,
                        ![S][t].iter =
                            IF FollowsIterations THEN 1 - @ ELSE @,
                        ![S][t].last_error =
                            FollowsIterations /\ outcome = "error"]
    /\ UNCHANGED <<svc_monitoring, monitor_task, stop_waiting, stopped>>
    /\ UNCHANGED <<sigVars, streamVars, calcVars, slVars, bandVars, numVars,
                   restVars>>

\* Lines 224-231 and 305-315 / 208 and 228-229: the send call returns, the
\* check returns the number of changes (hits) and the loop goes to sleep.
SendDone(S, t) ==
    /\ tasks[S][t].pc = "send"
    /\ ~Cancelled(tasks[S][t])
    /\ tasks' = [tasks EXCEPT
                     ![S][t].pc = after_check("changes"),
                     ![S][t].changes_count =
                         IF FollowsIterations THEN 1 ELSE @]
    /\ UNCHANGED <<svc_monitoring, monitor_task, stop_waiting, stopped>>
    /\ UNCHANGED <<sigVars, streamVars, calcVars, slVars, bandVars, numVars,
                   restVars>>

(***************************************************************************)
(* SignalMonitorService.get_current_signals, which calls list_stocks()     *)
(* with the defaults of its parameters.  A symbol is named by its place in *)
(* the alphabetical order of all symbols.                                  *)
(***************************************************************************)
\* sorted(S)[:n]
first(n, S) == {s \in S : Cardinality({x \in S : x < s}) < n}

\* list_stocks: the symbols of its items.  A symbol without an instrument
\* key or without a quote gives no item.
list_stocks(symbols, with_quote) ==
    LET symbols_to_fetch == first(limit, symbols)
    IN  {s \in symbols_to_fetch : s \in with_quote}

\* the keys of current_signals: one for every item
get_current_signals(symbols, with_quote) == list_stocks(symbols, with_quote)

WlInit ==
    /\ watchlist = {} /\ quoted = {} /\ evaluated = {} /\ wlpc = "idle"

GetCurrentSignals ==
    /\ wlpc = "idle"
    /\ evaluated' = get_current_signals(watchlist, quoted)
    /\ wlpc' = "returned"
    /\ UNCHANGED <<watchlist, quoted, gateVars>>
    /\ UNCHANGED <<sigVars, streamVars, calcVars, slVars, bandVars, numVars,
                   loopVars>>

(***************************************************************************)
(* is_market_open.  A datetime is its weekday (Monday is 0) and its time   *)
(* of day.                                                                 *)
(***************************************************************************)
Weekdays == 0..6
Hours == {0, 9, 12, 15, 23}
Minutes == {0, 14, 15, 16, 29, 30, 31}
Seconds == {0, 59}
Microseconds == {0, 1}
Datetimes ==
    [weekday : Weekdays, hour : Hours, minute : Minutes, second : Seconds,
     microsecond : Microseconds]

\* now.replace(hour=h, minute=m, second=0, microsecond=0)
replace(t, h, m) ==
    [t EXCEPT !.hour = h, !.minute = m, !.second = 0, !.microsecond = 0]

second_of_day(t) == (t.hour * 60 + t.minute) * 60 + t.second

not_after_Strict(a, b) ==
    \/ second_of_day(a) < second_of_day(b)
    \/ second_of_day(a) = second_of_day(b) /\ a.microsecond < b.microsecond

\* a <= b for two datetimes of the same day
not_after(a, b) ==
    \/ second_of_day(a) < second_of_day(b)
    \/ second_of_day(a) = second_of_day(b) /\ a.microsecond <= b.microsecond

is_market_open(t) ==
    IF t.weekday > 4 THEN FALSE
    ELSE LET market_start == replace(t, 9, 15)
             market_end == replace(t, 15, 30)
         IN  not_after(market_start, t) /\ not_after(t, market_end)

GateInit ==
    /\ gate_now = [weekday |-> 0, hour |-> 0, minute |-> 0, second |-> 0,
                   microsecond |-> 0]
    /\ gate_answer = FALSE
    /\ gatepc = "idle"

IsMarketOpen ==
    /\ gatepc = "idle"
    /\ gate_answer' = is_market_open(gate_now)
    /\ gatepc' = "returned"
    /\ UNCHANGED <<gate_now, wlVars>>
    /\ UNCHANGED <<sigVars, streamVars, calcVars, slVars, bandVars, numVars,
                   loopVars>>

RestIdle == WlInit /\ GateInit

OtherIdle == BandInit /\ NumInit /\ LoopInit /\ RestIdle

PureIdle == CalcIdle /\ SlIdle /\ OtherIdle

(***************************************************************************)
(* Specifications of the price stream.                                     *)
(***************************************************************************)
\* Subscriptions to one or two keys.  With at most MaxAttempts authorize
\* calls each, none of them exhausts its retries: that is followed in
\* SpecRetry.
StreamNext ==
    \/ \E ks \in KeyLists : Subscribe(ks)
    \/ ClosedEmit
    \/ \E ok \in BOOLEAN : Authorize(ok)
    \/ \E r \in {"ok"} \cup FailureKinds : Connect(r)
    \/ RecvCheck
    \/ \E k \in Keys, p \in Prices : RecvTick(k, p)
    \/ RecvSkip
    \/ \E kind \in FailureKinds : RecvFail(kind)
    \/ BackoffDone
    \/ Fallback
    \/ ConsumerLeaves
    \/ \E open \in BOOLEAN : SetMarket(open)

StreamSpecInit == SigInit /\ StreamInit /\ PureIdle /\ tracked = {}

SpecStream == StreamSpecInit /\ [][StreamNext]_vars

\* Subscriptions whose consecutive failures are followed up to the
\* exhaustion of the retries.  The retry logic never reads the keys: one
\* list of one key and one of two stand for all.
RetryKeyLists == {<<1>>, <<1, 2>>}

RetryInit == SigInit /\ StreamInit /\ PureIdle /\ tracked = {"fail_streak"}

RetryNext ==
    \/ \E ks \in RetryKeyLists : Subscribe(ks)
    \/ ClosedEmit
    \/ \E ok \in BOOLEAN : Authorize(ok)
    \/ RetriesExhausted
    \/ \E r \in {"ok"} \cup FailureKinds : Connect(r)
    \/ RecvCheck
    \/ \E k \in Keys, p \in Prices : RecvTick(k, p)
    \/ RecvSkip
    \/ \E kind \in FailureKinds : RecvFail(kind)
    \/ BackoffDone
    \/ Fallback
    \/ ConsumerLeaves
    \/ \E open \in BOOLEAN : SetMarket(open)

SpecRetry == RetryInit /\ [][RetryNext]_vars

\* The same subscriptions, with the failures since the last websocket
\* connection counted next to the delays slept.
BackoffInit ==
    /\ SigInit /\ StreamInit /\ PureIdle
    /\ tracked = {"fail_streak", "conn_failures"}

SpecBackoff == BackoffInit /\ [][RetryNext]_vars

\* Subscriptions whose frames are followed: the frames skipped on a
\* connection and the prices decoded from the feed.  As in SpecStream no
\* subscription exhausts its retries.
FeedInit ==
    SigInit /\ StreamInit /\ PureIdle /\ tracked = {"skipped", "received"}

\* The feed carries two prices, so that a key is decoded with a price and
\* later with another.
FeedPrices == {1, 2}

FeedNext ==
    \/ \E ks \in RetryKeyLists : Subscribe(ks)
    \/ ClosedEmit
    \/ \E ok \in BOOLEAN : Authorize(ok)
    \/ \E r \in {"ok"} \cup FailureKinds : Connect(r)
    \/ RecvCheck
    \/ \E k \in Keys, p \in FeedPrices : RecvTick(k, p)
    \/ RecvSkip
    \/ \E kind \in FailureKinds : RecvFail(kind)
    \/ BackoffDone
    \/ Fallback
    \/ ConsumerLeaves
    \/ \E open \in BOOLEAN : SetMarket(open)

SpecFeed == FeedInit /\ [][FeedNext]_vars

(***************************************************************************)
(* Specifications of the signal monitor; the price stream is not running.  *)
(***************************************************************************)
SigSpecInit(T) ==
    SigInit /\ StreamInit /\ PureIdle /\ market_open = FALSE /\ tracked = T

\* Checks in succession ("check now" requests, one at a time).
SeqValues == {Hold, Sig("BUY", ConfLo), Sig("BUY", ConfLo + 1)}

SignalInit == SigSpecInit({"prev_run"})

SignalNext ==
    \/ \E cur \in Evaluations(1..NSymbols, SeqValues) :
           CheckStart("check_signals_now", cur)
    \/ SendReturn("check_signals_now")
    \/ \E b \in BOOLEAN : SetTelegram(b)

SpecSignal == SignalInit /\ [][SignalNext]_vars

\* The monitor loop and "check now" requests on one event loop.
RaceInit == SigSpecInit({"notified_new"})

RaceNext ==
    \/ \E p \in Callers, cur \in Evaluations(1..NRaceSymbols, SignalValues) :
           CheckStart(p, cur)
    \/ \E p \in Callers : SendReturn(p)
    \/ StartMonitoring

SpecRace == RaceInit /\ [][RaceNext]_vars

\* "Check now" requests at any time of the clock.
CooldownInit == SigSpecInit({"last_alert_time"})

CooldownNext ==
    \/ \E cur \in Evaluations({1}, SignalValues) :
           CheckStart("check_signals_now", cur)
    \/ SendReturn("check_signals_now")
    \/ Tick

SpecCooldown == CooldownInit /\ [][CooldownNext]_vars

\* Many symbols changing in one check.
BatchValues == {Hold, Sig("BUY", ConfLo)}

BatchInit == SigSpecInit({})

BatchNext ==
    \/ \E cur \in Evaluations(1..NBatchSymbols, BatchValues) :
           CheckStart("check_signals_now", cur)
    \/ SendReturn("check_signals_now")

SpecBatch == BatchInit /\ [][BatchNext]_vars

\* Checks in which some symbols have no quote, Telegram staying configured.
AbsentInit == SigSpecInit({"last_seen_dir"})

AbsentNext ==
    \/ \E cur \in Evaluations(1..NSymbols, SeqValues) :
           CheckStart("check_signals_now", cur)
    \/ SendReturn("check_signals_now")

SpecAbsent == AbsentInit /\ [][AbsentNext]_vars

\* Checks whose deliveries may fail, with up to NBatchSymbols changes.
DeliveryInit == SigSpecInit({"delivery"})

\* Every symbol of the watchlist is evaluated, or none is (list_stocks
\* failed).
DeliveryEvaluations == [1..NBatchSymbols -> BatchValues] \cup {EmptyDict}

DeliveryNext ==
    \/ \E cur \in DeliveryEvaluations :
           CheckStart("check_signals_now", cur)
    \/ SendReturn("check_signals_now")

SpecDelivery == DeliveryInit /\ [][DeliveryNext]_vars

\* The monitor loop started and stopped, "check now" requests, and the
\* signal store becoming unwritable.
FailureInit == SigSpecInit({"notified_new"})

FailureNext ==
    \/ \E p \in Callers, cur \in Evaluations(1..NRaceSymbols, SignalValues) :
           CheckStart(p, cur)
    \/ \E p \in Callers : SendReturn(p)
    \/ StartMonitoring
    \/ StopMonitoring
    \/ \E b \in BOOLEAN : SetWritable(b)

SpecFailure == FailureInit /\ [][FailureNext]_vars

(***************************************************************************)
(* Specifications of the two functions: the arguments are drawn at the     *)
(* start, one call is made.                                                *)
(***************************************************************************)
TradingInit ==
    /\ SigInit /\ StreamInit /\ market_open = FALSE /\ tracked = {}
    /\ inputs \in Inputs
    /\ calc_result = NoResult
    /\ SlIdle
    /\ OtherIdle

TradingNext == Calculate

SpecTrading == TradingInit /\ [][TradingNext]_vars

StopLossInit ==
    /\ SigInit /\ StreamInit /\ market_open = FALSE /\ tracked = {}
    /\ CalcIdle
    /\ OtherIdle
    /\ journal \in Journals
    /\ quotes_data \in QuotesData
    /\ price_fetch \in FetchOutcomes
    /\ stop_loss_hits = {}
    /\ slpc = "idle"
    /\ alerts_sent = NoAlerts

StopLossNext == CheckStopLosses

SpecStopLoss == StopLossInit /\ [][StopLossNext]_vars

\* The journal: trades are logged and closed from an empty trades file, and
\* then the stop-losses are checked once.
JournalInit ==
    /\ SigInit /\ StreamInit /\ market_open = FALSE /\ tracked = {}
    /\ CalcIdle
    /\ OtherIdle
    /\ journal = [s \in HeldSymbols |-> <<>>]
    /\ quotes_data \in QuotesData
    /\ price_fetch = "ok"
    /\ stop_loss_hits = {}
    /\ slpc = "idle"
    /\ alerts_sent = NoAlerts

JournalNext ==
    \/ \E s \in HeldSymbols, a \in TradeActions, p \in TradePrices :
           log_trade(s, a, p)
    \/ \E s \in HeldSymbols, k \in 1..MaxTrades : close_trade(s, k)
    \/ CheckStopLosses

SpecJournal == JournalInit /\ [][JournalNext]_vars

\* The polls of the stop-loss monitor: the open trades and the quotes stay
\* as they are at the start, and every poll checks them again.
PollInit ==
    /\ SigInit /\ StreamInit /\ market_open = FALSE /\ tracked = {}
    /\ CalcIdle
    /\ OtherIdle
    /\ journal \in Journals
    /\ quotes_data \in QuotesData
    /\ price_fetch = "ok"
    /\ stop_loss_hits = {}
    /\ slpc = "idle"
    /\ alerts_sent = NoAlerts

PollNext == \E delivered \in SUBSET HeldSymbols : check_and_alert(delivered)

SpecPoll == PollInit /\ [][PollNext]_vars

(***************************************************************************)
(* Specification of one evaluation of the watchlist: the watchlist is the  *)
(* first symbols of the alphabet, and all of them but at most one have a   *)
(* quote.                                                                  *)
(***************************************************************************)
WatchlistInit ==
    /\ SigInit /\ StreamInit /\ market_open = FALSE /\ tracked = {}
    /\ CalcIdle /\ SlIdle
    /\ BandInit /\ NumInit /\ LoopInit
    /\ GateInit
    /\ watchlist \in {1..n : n \in 0..MaxWatchlist}
    /\ quoted \in {watchlist \ {u} : u \in 0..MaxWatchlist}
    /\ evaluated = {}
    /\ wlpc = "idle"

WatchlistNext == GetCurrentSignals

SpecWatchlist == WatchlistInit /\ [][WatchlistNext]_vars

(***************************************************************************)
(* Specification of the market-hours gate: one call at any moment of the   *)
(* week.                                                                   *)
(***************************************************************************)
HoursInit ==
    /\ SigInit /\ StreamInit /\ market_open = FALSE /\ tracked = {}
    /\ CalcIdle /\ SlIdle
    /\ BandInit /\ NumInit /\ LoopInit
    /\ WlInit
    /\ gate_now \in Datetimes
    /\ gate_answer = FALSE
    /\ gatepc = "idle"

HoursNext == IsMarketOpen

SpecHours == HoursInit /\ [][HoursNext]_vars

(***************************************************************************)
(* Specification of the band-cross detector: calls for any symbol, price   *)
(* and bands, a minute passing between them or not.                        *)
(***************************************************************************)
BandSpecInit ==
    /\ SigInit /\ StreamInit /\ market_open = FALSE /\ tracked = {}
    /\ CalcIdle /\ SlIdle
    /\ BandInit
    /\ NumInit
    /\ LoopInit
    /\ RestIdle

BandNext ==
    \/ \E s \in BandSymbols, price \in BandPrices, b \in BandPairs :
           check_bollinger_band_crosses(s, price, b[2], b[1])
    \/ BandTick

SpecBand == BandSpecInit /\ [][BandNext]_vars

(***************************************************************************)
(* Specification of the two indicators: a series and a period are drawn at *)
(* the start, each indicator is computed once.                             *)
(***************************************************************************)
IndicatorInit ==
    /\ SigInit /\ StreamInit /\ market_open = FALSE /\ tracked = {}
    /\ CalcIdle /\ SlIdle
    /\ BandInit
    /\ series \in SeriesUpTo(MaxSeries)
    /\ period \in Periods
    /\ rsi = NoRsi
    /\ bands = NoBands
    /\ LoopInit
    /\ RestIdle

IndicatorNext ==
    \/ CalculateRsi
    \/ CalculateBollinger

SpecIndicator == IndicatorInit /\ [][IndicatorNext]_vars

(***************************************************************************)
(* Specifications of the background loops: start and stop calls for both   *)
(* services at any time.  In SpecLoopFair a task whose sleep has elapsed   *)
(* is resumed (asyncio's scheduling).                                      *)
(***************************************************************************)
LoopSpecInit ==
    /\ SigInit /\ StreamInit /\ market_open = FALSE /\ tracked = {}
    /\ CalcIdle /\ SlIdle
    /\ BandInit
    /\ NumInit
    /\ LoopInit
    /\ RestIdle

LoopNext ==
    \/ \E S \in Services : start_monitoring(S)
    \/ \E S \in Services : stop_monitoring(S)
    \/ \E S \in Services, t \in TaskIds : StopReturns(S, t)
    \/ \E S \in Services, t \in TaskIds : TaskCancelled(S, t)
    \/ \E S \in Services, t \in TaskIds, o \in Outcomes :
           loop_iteration(S, t, o)
    \/ \E S \in Services, t \in TaskIds : SendDone(S, t)

SpecLoop == LoopSpecInit /\ [][LoopNext]_vars

\* The same with the iterations of each task followed, and fairness.
LoopFairInit ==
    /\ SigInit /\ StreamInit /\ market_open = FALSE
    /\ tracked = {"iterations"}
    /\ CalcIdle /\ SlIdle
    /\ BandInit
    /\ NumInit
    /\ LoopInit
    /\ RestIdle

SpecLoopFair ==
    /\ LoopFairInit
    /\ [][LoopNext]_vars
    /\ \A S \in Services, t \in TaskIds :
           WF_vars(\E o \in Outcomes : loop_iteration(S, t, o))

(***************************************************************************)
(* Claims about the price stream.                                          *)
(***************************************************************************)

\* C1: once the receive loop has been left because the market-hours gate
\* closed, the subscription makes no further authorize or websocket-connect
\* attempt: it is never again connecting or connected.
C1_NoReconnectAfterGateExit ==
    gate_exit => spc \notin {"connect", "recv_check", "recv"}

\* C2: while the gate stays open, the stream stops attempting connections
\* after at most max_retries consecutive failures (authorize, websocket
\* connect, or a drop with no tick received).
C2_RetriesBounded ==
    gate_stayed_open => fail_streak <= max_retries

\* C9: a stream started with the gate closed makes no authorize or connect
\* attempt, emits only cached or mock ticks, at most one per requested key,
\* and then ends.
C9_ClosedGateNoConnection ==
    started_closed =>
        /\ attempts = 0
        /\ spc \in {"closed_emit", "idle", "raised"}
        /\ \A k \in Keys :
               yielded[k] <= (IF k \in KeySet(instrument_keys) THEN 1 ELSE 0)
        /\ ev_yield.on =>
               LET t == ev_yield.tick
                   k == t.instrument_key IN
               /\ ev_yield.path = "closed"
               /\ \/ t = mock_tick(k)
                  \/ k \in DOMAIN last_tick_cache /\ last_tick_cache[k] = t
        /\ spc = "idle" => ~ev_yield.on

\* A stream started with the gate closed has ended after emitting the
\* cached tick of each of its two keys, although the gate opened while it
\* was emitting.
C9_Witness ==
    /\ started_closed
    /\ spc = "idle"
    /\ market_open
    /\ Len(instrument_keys) = 2
    /\ \A k \in KeySet(instrument_keys) :
           yielded[k] = 1 /\ k \in DOMAIN last_tick_cache

\* C11: a stream started with the gate closed yields, for a requested key
\* without a cached tick, the zero-valued mock tick tagged CLOSED, and
\* completes without raising once every requested key is handled.
C11_MockTickForUncachedKey ==
    started_closed =>
        /\ spc # "raised"
        /\ ki > Len(instrument_keys) =>
               \A k \in KeySet(instrument_keys) : yielded[k] = 1
        /\ (ev_yield.on /\ ev_yield.tick.mock) =>
               ev_yield.tick = mock_tick(ev_yield.tick.instrument_key)

\* C10: every cached tick emitted on the closed-gate path is marked cached
\* and carries market_status CLOSED.
C10_ClosedCachedTickMarkedClosed ==
    (ev_yield.on /\ ev_yield.path = "closed" /\ ~ev_yield.tick.mock)
        => ev_yield.tick.cached /\ ev_yield.tick.market_status = "CLOSED"

\* C12: when a connection attempt or an open connection fails while the
\* gate is closed, whatever the kind of failure, the stream goes to the
\* cached emission and makes no further connection attempt.
C12_FailureWithGateClosedFallsBack ==
    (ev_yield.path = "failed" /\ ~market_open) => spc = "fallback"

\* C13: once the retries are exhausted the stream makes no further attempt;
\* every tick it emits from then on is a cached tick flagged cached and
\* tagged ERROR (CLOSED if the gate is closed by then), never OPEN; and when
\* it has gone through its keys, each key with a cached tick has been
\* emitted once.
C13_Exhausted == ~MayRetry(retry_count)

C13_ExhaustedEmitsCachedAsError ==
    C13_Exhausted =>
        /\ spc \in {"backoff", "loop", "fallback", "idle"}
        /\ ev_yield.on =>
               /\ ev_yield.path = "fallback"
               /\ ev_yield.tick.cached
               /\ ev_yield.tick.market_status =
                      (IF market_open THEN "ERROR" ELSE "CLOSED")
               /\ last_tick_cache[ev_yield.tick.instrument_key] = ev_yield.tick
        /\ (spc \in {"fallback", "idle"} /\ ki > Len(instrument_keys)) =>
               \A k \in KeySet(instrument_keys) :
                   yielded[k] = (IF k \in DOMAIN last_tick_cache THEN 1 ELSE 0)

\* The retries are exhausted with the gate open since the start, and the
\* cached tick of a key, cached OPEN, is emitted tagged ERROR.
C13_Witness ==
    /\ C13_Exhausted
    /\ gate_stayed_open
    /\ ev_yield.on
    /\ ev_yield.tick.market_status = "ERROR"
    /\ Len(instrument_keys) = 2

\* C14: a frame that does not decode is skipped: the stream is back at the
\* top of the receive loop of the same connection, and the retry counter,
\* the number of connection attempts and the last-tick cache are unchanged.
C14_MalformedFrameSkipped ==
    [][ev_yield'.path = "malformed" =>
          /\ spc' = "recv_check"
          /\ UNCHANGED <<retry_count, attempts, last_tick_cache>>]_vars

\* A tick is decoded and emitted on a connection on which a frame was
\* skipped before.
C14_Witness ==
    ev_yield.on /\ ev_yield.path = "live" /\ skipped

\* C15: every emitted tick is a tick decoded from a frame of the feed, or a
\* replay from the cache flagged cached whose price was received from the
\* feed, or the zero-priced tick flagged mock.
C15_NoForgedTick ==
    ev_yield.on =>
        LET t == ev_yield.tick
            from_feed == <<t.instrument_key, t.ltp>> \in received
        IN  \/ ev_yield.path = "live" /\ from_feed /\ ~t.mock
            \/ ev_yield.path \in {"closed", "fallback"}
                  /\ from_feed /\ t.cached /\ ~t.mock
            \/ t.mock /\ t.ltp = 0

\* A tick that was decoded, cached and emitted live is replayed by a later
\* stream started with the gate closed.
C15_Witness ==
    /\ ev_yield.on
    /\ ev_yield.path = "closed"
    /\ started_closed
    /\ <<ev_yield.tick.instrument_key, ev_yield.tick.ltp>> \in received

(***************************************************************************)
\* C28: for each key the cache holds an entry exactly when a tick of that key
\* was decoded (by any subscription), the entry carries the key and the
\* price of the tick decoded last for it, and a tick emitted live carries
\* market_status OPEN and is, when emitted, the entry of its key.  (The
\* replay paths set the flags cached and market_status of an entry; they
\* never change which tick it is.)
C28_CacheHoldsLastDecoded ==
    /\ DOMAIN last_tick_cache = DOMAIN last_decoded
    /\ \A k \in DOMAIN last_tick_cache :
          /\ last_tick_cache[k].instrument_key = k
          /\ last_tick_cache[k].ltp = last_decoded[k]
          /\ ~last_tick_cache[k].mock
    /\ ev_yield.on /\ ev_yield.path = "live" =>
          /\ ev_yield.tick.market_status = "OPEN"
          /\ ev_yield.tick.instrument_key \in DOMAIN last_tick_cache
          /\ last_tick_cache[ev_yield.tick.instrument_key] = ev_yield.tick

\* A key decoded before with another price is decoded again and emitted
\* live.
C28_Witness ==
    /\ ev_yield.on
    /\ ev_yield.path = "live"
    /\ \E p \in FeedPrices :
          /\ p # ev_yield.tick.ltp
          /\ <<ev_yield.tick.instrument_key, p>> \in received

\* C30: the delay slept after the n-th consecutive failure (no websocket
\* connection made in between) is min(60, 2 * 2^n) seconds: 4, 8, 16, 32,
\* then 60.
C30_BackoffDoubles ==
    spc = "backoff" => wait_time = Min(60, 2 * (2 ^ conn_failures))

(***************************************************************************)
(* Claims about the signal monitor.                                        *)
(***************************************************************************)

\* C3: a signal-change notification for an instrument is emitted only if the
\* cooldown (300 s) has elapsed since the last notification for that
\* instrument; a second flip inside the window is not notified.
C3_CooldownRespected ==
    ev_notify.on /\ ev_notify.prev_at # NoTime
        => (ev_notify.at - ev_notify.prev_at) * SecondsPerMinute
               >= CooldownSeconds

\* C4: with the monitor loop and a "check now" request interleaving at the
\* await points of check_and_notify, the same change (same symbol, same
\* stored signal, same new signal) is notified at most once.
C4_AtMostOneNotificationPerChange == ~ev_notify.repeated

\* C5: a check reports a change for a symbol exactly when a signal is stored
\* for it and the direction differs or the confidence differs by at least
\* 1; a symbol without a stored signal is never notified.
C5_ExpectedChanged(stored, cur) ==
    {s \in DOMAIN cur :
        /\ s \in DOMAIN stored
        /\ \/ stored[s].direction # cur[s].direction
           \/ Abs(cur[s].confidence - stored[s].confidence) >= 1}

C5_ChangeIffStoredAndDiffers ==
    /\ ev_detect.on =>
           ev_detect.changed = C5_ExpectedChanged(ev_detect.stored, ev_detect.cur)
    /\ ev_notify.on => ev_notify.had_old

\* A detection with a stored symbol whose confidence alone changed and a
\* symbol seen for the first time with a positive confidence.
C5_Witness ==
    /\ ev_detect.on
    /\ \E s \in ev_detect.changed :
           ev_detect.stored[s].direction = ev_detect.cur[s].direction
    /\ \E s \in DOMAIN ev_detect.cur \ DOMAIN ev_detect.stored :
           ev_detect.cur[s].confidence >= 1

\* C6: a check that follows a returned check and evaluates every symbol to
\* the same direction and confidence as that check detects no change and
\* sends no notification.
C6_NonChangeIdempotent ==
    (/\ ev_detect.on
     /\ ev_detect.alone
     /\ ev_detect.prev.ran
     /\ ev_detect.prev.cur = ev_detect.cur)
        => ev_detect.changed = {} /\ ~ev_notify.on

\* A second check that evaluates both symbols as the first did, one of them
\* to BUY, the first check's evaluation being what is stored.
C6_Witness ==
    /\ ev_detect.on
    /\ ev_detect.prev.ran
    /\ ev_detect.prev.cur = ev_detect.cur
    /\ DOMAIN ev_detect.cur = 1..NSymbols
    /\ \E s \in DOMAIN ev_detect.cur : ev_detect.cur[s].direction = "BUY"
    /\ ev_detect.stored = ev_detect.cur

\* C7: every change a check detected has had its own notification attempted
\* by the time the check stores the new signals, however many symbols
\* changed.
C7_EveryChangeNotified ==
    ev_finish.on /\ ev_finish.saved => ev_finish.changed \subseteq ev_finish.attempted

\* C8: a symbol whose direction differs from the direction it had when it
\* was last stored is notified at the check that observes it, even if it
\* was absent from the checks in between.
C8_NoDirectionChangeMissed ==
    ev_finish.on /\ ev_finish.saved =>
        \A s \in DOMAIN ev_finish.cur :
            ev_finish.seen[s] \notin {"NONE", ev_finish.cur[s].direction}
                => s \in ev_finish.attempted

\* C23: send_message is called at most once per symbol in a check, whatever
\* the calls return; and a check in which a delivery failed still returns:
\* it has stored the signals it evaluated and returns the number of changes
\* it detected.
C23_BestEffortDelivery ==
    /\ \A p \in Callers, s \in AllSymbols : delivery[p].attempts[s] <= 1
    /\ ev_finish.on /\ delivery[ev_finish.caller].failed =>
          /\ ev_finish.saved
          /\ last_signals = ev_finish.cur
          /\ ev_finish.returned = Cardinality(ev_finish.changed)

\* A check with more changes than get a message of their own returns after
\* a failed delivery.
C23_Witness ==
    /\ ev_finish.on
    /\ delivery[ev_finish.caller].failed
    /\ Cardinality(ev_finish.changed) > MaxIndividual

\* C27: a check that starts while no other check is running never notifies
\* a signal that was notified before and not stored since: whatever
\* happened between that send and the save, the notified signal is the
\* stored one before the next detection.
C27_NotifiedChangeStored ==
    ev_detect.on /\ ev_detect.alone /\ ev_notify.on => ~ev_notify.repeated

(***************************************************************************)
(* Claims about calculate_trading_signal.                                  *)
(***************************************************************************)
Called == calc_result # NoResult

\* C16: for every input with MA50 > MA200, price > MA50, RSI > 40 and
\* price > MA20, whatever the Bollinger bands, the signal returned is a BUY
\* of confidence at least 3.
C16_UptrendIsBuy ==
    /\ Called
    /\ inputs.ma50 > inputs.ma200
    /\ inputs.current_price > inputs.ma50
    /\ inputs.rsi > 40
    /\ inputs.current_price > inputs.ma20
    => calc_result.direction = "BUY" /\ calc_result.confidence >= 3

\* The reference decision of C17: its branches in their order, the BUY
\* side before the SELL side; weights and confidences in halves.  Whole(w)
\* is the weight the confidence is computed from.
C17_Branch(when, direction, confidence2) ==
    [when |-> when, direction |-> direction, confidence2 |-> confidence2]
C17_Branches(i, Whole(_)) ==
    LET wb == bb_signals(i).buy
        ws == bb_signals(i).sell
        nb == buy_count(i)
        ns == sell_count(i)
    IN  << C17_Branch(wb >= 4 /\ nb >= 1, "BUY", Min(10, 4 + Whole(wb))),
           C17_Branch(ws >= 4 /\ ns >= 1, "SELL", Min(10, 4 + Whole(ws))),
           C17_Branch(nb = 3, "BUY", 6 + Min(Whole(wb), 4)),
           C17_Branch(ns = 3, "SELL", 6 + Min(Whole(ws), 4)),
           C17_Branch(wb >= 2 /\ nb >= 2, "BUY", 4 + Whole(wb)),
           C17_Branch(ws >= 2 /\ ns >= 2, "SELL", 4 + Whole(ws)),
           C17_Branch(nb = 2 /\ i.rsi > 50, "BUY", 4),
           C17_Branch(ns = 2 /\ i.rsi < 50, "SELL", 4),
           C17_Branch(TRUE, "HOLD", 0) >>
C17_FirstMatch(branches) ==
    branches[CHOOSE n \in DOMAIN branches :
                 /\ branches[n].when
                 /\ \A m \in 1..(n - 1) : ~branches[m].when]
C17_Agrees(Whole(_)) ==
    Called =>
        LET ref == C17_FirstMatch(C17_Branches(inputs, Whole))
        IN  /\ calc_result.direction = ref.direction
            /\ 2 * calc_result.confidence = ref.confidence2
C17_AsGiven(w) == w
C17_IntegerPart(w) == 2 * (w \div 2)

\* C17 as stated: the signal returned has the direction and the confidence
\* of the first matching branch of (a) Bollinger weight >= 2 with at least
\* one core condition: 2 + weight, at most 5; (b) all three core
\* conditions: 3 + min(weight, 2); (c) weight >= 1 with at least two core
\* conditions: 2 + weight; (d) exactly two core conditions and RSI on the
\* favourable side of 50: 2; (e) HOLD, 0.
C17_ReferenceDecision == C17_Agrees(C17_AsGiven)

\* C17, amended: the same, the confidence computed from the integer part of
\* the Bollinger weight.
C17_TruncatedReferenceDecision == C17_Agrees(C17_IntegerPart)

\* all three SELL conditions with the weight 0.5 of a price over the middle
\* band: a SELL of confidence 3
C17_Witness ==
    /\ Called
    /\ core_sell_signal(inputs)
    /\ bb_signals(inputs).sell = 1
    /\ calc_result.direction = "SELL" /\ calc_result.confidence = 3

\* C18: every signal returned has a direction in {BUY, SELL, HOLD}, a
\* sentiment in {BULLISH, BEARISH, NEUTRAL} and an integer confidence in
\* 0..5; the confidence is 0 exactly when the direction is HOLD; BULLISH
\* occurs only with BUY, BEARISH only with SELL, and HOLD is NEUTRAL.
C18_SignalWellFormed ==
    Called =>
        /\ calc_result.direction \in {"BUY", "SELL", "HOLD"}
        /\ calc_result.sentiment \in {"BULLISH", "BEARISH", "NEUTRAL"}
        /\ calc_result.confidence \in 0..5
        /\ calc_result.confidence = 0 <=> calc_result.direction = "HOLD"
        /\ calc_result.sentiment = "BULLISH" => calc_result.direction = "BUY"
        /\ calc_result.sentiment = "BEARISH"
               => calc_result.direction = "SELL"
        /\ calc_result.direction = "HOLD"
               => calc_result.sentiment = "NEUTRAL"

\* a HOLD in spite of the Bollinger weight 1.5 of an RSI of 25 or less
C18_Witness ==
    /\ Called
    /\ calc_result.direction = "HOLD" /\ calc_result.confidence = 0
    /\ calc_result.sentiment = "NEUTRAL"
    /\ bb_signals(inputs).buy = 3

\* The levels of C31, in hundredths of a paisa: the stop-loss and the
\* target of a signal of the given direction and confidence.
C31_Stop(i, direction) ==
    IF direction = "BUY"
    THEN Max(Max(98 * i.bb_lower, 97 * i.ma20), 96 * i.current_price)
    ELSE Min(Min(102 * i.bb_upper, 103 * i.ma20), 104 * i.current_price)
C31_Target(i, direction, confidence) ==
    IF direction = "BUY"
    THEN IF bb_signals(i).buy >= 4
         THEN Min(98 * i.bb_upper, i.current_price * (100 + 2 * confidence))
         ELSE i.current_price * (103 + confidence)
    ELSE IF bb_signals(i).sell >= 4
         THEN Max(102 * i.bb_lower, i.current_price * (100 - 2 * confidence))
         ELSE i.current_price * (97 - confidence)
\* a BUY with a positive lower band, a SELL with a positive upper band
C31_Covered ==
    /\ Called
    /\ \/ calc_result.direction = "BUY" /\ inputs.bb_lower > 0
       \/ calc_result.direction = "SELL" /\ inputs.bb_upper > 0
C31_Levels(Same(_, _)) ==
    C31_Covered =>
        /\ Same(calc_result.sl, C31_Stop(inputs, calc_result.direction))
        /\ Same(calc_result.target,
                C31_Target(inputs, calc_result.direction,
                           calc_result.confidence))
C31_Equal(level, x) == 100 * level = x
C31_Rounded(level, x) == level = Round(x, 100)

\* C31 as stated: for a BUY with a positive lower band the stop-loss is
\* max(0.98 * bb_lower, 0.97 * MA20, 0.96 * price) and the target is
\* price * (1 + 0.03 + 0.01 * confidence), or
\* min(0.98 * bb_upper, price * (1 + 0.02 * confidence)) for a strong
\* Bollinger BUY; for a SELL with a positive upper band the stop-loss is
\* min(1.02 * bb_upper, 1.03 * MA20, 1.04 * price) and the target is
\* price * (1 - 0.03 - 0.01 * confidence), or
\* max(1.02 * bb_lower, price * (1 - 0.02 * confidence)) for a strong
\* Bollinger SELL.
C31_LevelsAsStated == C31_Levels(C31_Equal)

\* C31, amended: the stop-loss and the target returned are these values
\* rounded to two decimals.
C31_LevelsRounded == C31_Levels(C31_Rounded)

\* a strong Bollinger BUY whose target is 2 % under the upper band, a value
\* that had to be rounded
C31_Witness ==
    /\ Called
    /\ calc_result.direction = "BUY"
    /\ bb_signals(inputs).buy >= 4
    /\ calc_result.target = Round(98 * inputs.bb_upper, 100)
    /\ 100 * calc_result.target # 98 * inputs.bb_upper
    /\ calc_result.sl = Round(97 * inputs.ma20, 100)

\* C32: for positive inputs with bb_lower <= bb_middle <= bb_upper, a BUY
\* has stop_loss < entry < target and a SELL has target < entry < stop_loss.
C32_LevelsOrdered ==
    /\ Called
    /\ \A f \in DOMAIN inputs : inputs[f] > 0
    /\ inputs.bb_lower <= inputs.bb_middle
    /\ inputs.bb_middle <= inputs.bb_upper
    => /\ calc_result.direction = "BUY"
           => /\ calc_result.sl < calc_result.entry
              /\ calc_result.entry < calc_result.target
       /\ calc_result.direction = "SELL"
           => /\ calc_result.target < calc_result.entry
              /\ calc_result.entry < calc_result.sl

(***************************************************************************)
(* Claims about check_stop_losses.                                         *)
(***************************************************************************)
Checked == slpc = "returned"
HitSymbols == {h.symbol : h \in stop_loss_hits}
\* the price fetch gave a price other than zero for the symbol
PriceAvailable(s) ==
    price_fetch = "ok" /\ quotes_data[s] \notin {NoQuote, 0}
\* the stop-loss of a symbol: that of its most recent open trade
StopLoss(s) == journal[s][Len(journal[s])].sl

\* C19: for every symbol with a non-zero net position and an available
\* current price, a hit is raised if and only if the position is long and
\* the price is at or under the stop-loss, or the position is short and the
\* price is at or over it.
C19_HitIffStopCrossed ==
    Checked =>
        \A s \in HeldSymbols :
            position(journal[s]) # 0 /\ PriceAvailable(s) =>
                (s \in HitSymbols <=>
                    \/ /\ position(journal[s]) > 0
                       /\ quotes_data[s] <= StopLoss(s)
                    \/ /\ position(journal[s]) < 0
                       /\ quotes_data[s] >= StopLoss(s))

\* a long position whose price equals its stop-loss is hit, and a short
\* position whose price is under its stop-loss is not
C19_Witness ==
    /\ Checked
    /\ position(journal["INFY"]) > 0 /\ PriceAvailable("INFY")
    /\ quotes_data["INFY"] = StopLoss("INFY")
    /\ "INFY" \in HitSymbols
    /\ position(journal["TCS"]) < 0 /\ PriceAvailable("TCS")
    /\ quotes_data["TCS"] < StopLoss("TCS")
    /\ "TCS" \notin HitSymbols

\* C20: a symbol for which the price fetch returns no data, or a zero
\* price, is skipped without a hit; every other symbol whose price is
\* available is still evaluated; when the whole price fetch fails the check
\* returns no hit.
C20_NoPriceNoHit ==
    Checked =>
        /\ \A s \in HeldSymbols : ~PriceAvailable(s) => s \notin HitSymbols
        /\ \A s, t \in HeldSymbols :
               /\ ~PriceAvailable(s) /\ position(journal[s]) # 0
               /\ PriceAvailable(t) /\ position(journal[t]) > 0
               /\ quotes_data[t] <= StopLoss(t)
               => t \in HitSymbols
        /\ price_fetch # "ok" => stop_loss_hits = {}

\* a long position without a quote is skipped, and the other long position,
\* whose price is under its stop-loss, is hit
C20_Witness ==
    /\ Checked
    /\ price_fetch = "ok"
    /\ position(journal["INFY"]) > 0 /\ quotes_data["INFY"] = NoQuote
    /\ position(journal["TCS"]) > 0 /\ PriceAvailable("TCS")
    /\ quotes_data["TCS"] < StopLoss("TCS")
    /\ HitSymbols = {"TCS"}

\* C33: every hit on a net-long symbol has the stop-loss and the entry
\* price of an open BUY trade of the symbol, a current price under the
\* entry price and a loss_amount >= 0; every hit on a net-short symbol has
\* those of an open SELL trade, a current price over the entry price and a
\* loss_amount >= 0.
C33_HitIsOwnSideLoss ==
    Checked =>
        \A h \in stop_loss_hits :
            LET side == IF h.net_quantity > 0 THEN "BUY" ELSE "SELL"
                trades == journal[h.symbol]
            IN  /\ \E k \in DOMAIN trades :
                       /\ trades[k].action = side
                       /\ trades[k].sl = h.sl_price
                       /\ trades[k].entry_price = h.entry_price
                /\ h.net_quantity > 0 => h.current_price < h.entry_price
                /\ h.net_quantity < 0 => h.current_price > h.entry_price
                /\ h.loss_amount >= 0

\* C35: while the open trades and the price of a symbol stay unchanged (as
\* they do throughout SpecPoll), the stop-loss alert of the symbol is sent
\* at most once, however many polls find its stop-loss breached.
C35_AlertedOnce == \A s \in HeldSymbols : alerts_sent[s] <= 1

\* C34: no symbol is ever net short, and a SELL is not added to the open
\* trades of a symbol whose position is <= 0.
C34_NeverNetShort ==
    /\ [](\A s \in HeldSymbols : get_current_position(journal, s) >= 0)
    /\ [][\A s \in HeldSymbols :
              /\ get_current_position(journal, s) <= 0
              /\ Len(journal'[s]) > Len(journal[s])
              => journal'[s][Len(journal'[s])].action # "SELL"]_vars

(***************************************************************************)
(* Claims about check_bollinger_band_crosses.                              *)
(***************************************************************************)

\* C21: an alert is returned only when the price is outside the bands and
\* either the symbol has no previous observation or the zone of the
\* observation differs from the zone of the observation just before it.
C21_AlertOnlyOnZoneChange ==
    ev_cross.on /\ ev_cross.alert =>
        /\ ev_cross.position # "within_bands"
        /\ ev_cross.prev_zone # ev_cross.position

\* C29: two alerts returned for the same symbol are at least alert_cooldown
\* (300 s) apart, whatever the prices and the times of the calls between
\* them.
C29_AlertsCooldownApart ==
    ev_cross.on /\ ev_cross.alert /\ ev_cross.prev_alert_at # NoTime =>
        (ev_cross.at - ev_cross.prev_alert_at) * SecondsPerMinute
            >= CooldownSeconds

\* a second alert for a symbol that was seen within the bands since its
\* first alert
C29_Witness ==
    /\ ev_cross.on /\ ev_cross.alert
    /\ ev_cross.prev_alert_at # NoTime
    /\ ev_cross.through_within

\* C36: a call with zero bands and a positive price returns no alert and
\* leaves the stored state of every symbol (position and last_alert_time)
\* as it was; the error of the call is not the caller's, the call returns.
C36_ZeroBandsNoAlert ==
    [][\A s \in BandSymbols, price \in BandPrices :
          price > 0 /\ check_bollinger_band_crosses(s, price, 0, 0)
          => /\ ev_cross'.on /\ ~ev_cross'.alert
             /\ active_alerts' = active_alerts]_vars

\* such a call for a symbol stored below its lower band, its cooldown over:
\* no alert and the same stored state, where bands of 95 and 105 would give
\* an alert
C36_Witness ==
    /\ ev_cross.on /\ ~ev_cross.alert
    /\ ev_cross.position = "above_upper"
    /\ active_alerts[ev_cross.symbol].position = "below_lower"
    /\ (ev_cross.at - active_alerts[ev_cross.symbol].last_alert_time)
           * SecondsPerMinute >= CooldownSeconds

(***************************************************************************)
(* Claims about calculate_rsi and calculate_bollinger_bands.               *)
(***************************************************************************)
NonDecreasing(x) == \A i \in 1..(Len(x) - 1) : x[i] <= x[i + 1]

\* the smoothed average loss of the series is zero
C25_NoAverageLoss ==
    smoothed(losses(price_changes(series)), period,
             Len(series) - 1).num = 0

\* C25: calculate_rsi returns 50.0 for every series shorter than period + 1,
\* 100.0 whenever the smoothed average loss is zero, so for every
\* non-decreasing series of length period + 1 or more, and a value within
\* [0, 100] for every other series.
C25_RsiCases ==
    rsi # NoRsi =>
        IF Len(series) < period + 1 THEN rsi = 500
        ELSE /\ C25_NoAverageLoss => rsi = 1000
             /\ NonDecreasing(series) => rsi = 1000
             /\ rsi \in 0..1000

\* a series with gains and losses, long enough to be smoothed, whose RSI is
\* neither 50 nor 100
C25_Witness ==
    /\ rsi \notin {NoRsi, 500, 1000}
    /\ Len(series) > period + 1
    /\ ~NonDecreasing(series)

\* C26 as stated: all-zero bands for a series shorter than period; else the
\* middle band equals the arithmetic mean of the last period prices and
\* lower <= middle <= upper.
C26_MiddleIsMean ==
    bands # NoBands =>
        IF Len(series) < period THEN bands = Bands3(0, 0, 0)
        ELSE /\ bands.middle * period
                    = 100 * SumOf(series, Len(series) - period + 1,
                                  Len(series))
             /\ bands.lower <= bands.middle
             /\ bands.middle <= bands.upper

\* C26, amended: the same, the middle band being that mean rounded to two
\* decimals (at most 0.005 away from it).
C26_MiddleIsRoundedMean ==
    bands # NoBands =>
        IF Len(series) < period THEN bands = Bands3(0, 0, 0)
        ELSE LET S == SumOf(series, Len(series) - period + 1, Len(series))
             IN  /\ 2 * Abs(bands.middle * period - 100 * S) <= period
                 /\ bands.lower <= bands.middle
                 /\ bands.middle <= bands.upper

\* three prices whose mean 4/3 is returned as 1.33, between distinct bands
C26_Witness ==
    /\ bands # NoBands
    /\ period = 3 /\ Len(series) > period
    /\ bands.middle = 133
    /\ bands.lower < bands.middle /\ bands.middle < bands.upper

(***************************************************************************)
(* Claims about the background loops.                                      *)
(***************************************************************************)
\* The loop tasks of a service that have not finished and were not
\* cancelled.
Running(ts) == {t \in TaskIds : ts[t].pc \notin {"none", "done"}
                                    /\ ~Cancelled(ts[t])}

Made(ts) == {t \in TaskIds : ts[t].pc # "none"}

\* C22: in every step and for each service: at most one loop task that was
\* not cancelled exists; a step in which the service is and stays
\* monitoring creates no task; a step that changes the monitoring flag of
\* one service leaves the flag of the other; a task that was cancelled, or
\* that a returned stop_monitoring call had stopped, begins no check and
\* makes no send call (its only step is to end), so that a task cancelled
\* in its interval sleep ends without the sleep elapsing; and a task a
\* returned stop_monitoring call had stopped has finished or is cancelled.
C22_StartStopIndependent ==
    [][\A S \in Services :
          /\ Cardinality(Running(tasks'[S])) <= 1
          /\ svc_monitoring[S] /\ svc_monitoring'[S]
                 => Made(tasks'[S]) = Made(tasks[S])
          /\ svc_monitoring'[S] # svc_monitoring[S]
                 => \A R \in Services \ {S} :
                        svc_monitoring'[R] = svc_monitoring[R]
          /\ \A t \in TaskIds :
                 t \in stopped[S] \/ Cancelled(tasks[S][t])
                     => tasks'[S][t].pc \in {tasks[S][t].pc, "done"}
          /\ \A t \in stopped'[S] :
                 tasks'[S][t].pc = "done" \/ Cancelled(tasks'[S][t])]_vars

\* stop_monitoring has returned for a loop that was cancelled in its
\* interval sleep; the service was started again meanwhile and its second
\* loop is asleep, while the other service is monitoring too.
C22_Witness ==
    \E S \in Services, t \in TaskIds, u \in TaskIds :
        /\ t \in stopped[S]
        /\ tasks[S][t].pc = "done"
        /\ tasks[S][t].cancelled_at = "sleep"
        /\ u # t
        /\ svc_monitoring[S]
        /\ monitor_task[S] = u
        /\ tasks[S][u].pc = "sleep"
        /\ \A R \in Services \ {S} : svc_monitoring[R]

\* C24: a check that ends in an error returns 0 and leaves the loop asleep
\* with the service still monitoring; and unless the loop is cancelled
\* (stop_monitoring), it begins another check later.
C24_ErrorKeepsLoop ==
    /\ [][\A S \in Services, t \in TaskIds :
             tasks'[S][t].iter # tasks[S][t].iter /\ tasks'[S][t].last_error
                 => /\ tasks'[S][t].pc = "sleep"
                    /\ tasks'[S][t].changes_count = 0
                    /\ svc_monitoring'[S]]_vars
    /\ \A S \in Services, t \in TaskIds, b \in {0, 1} :
           (tasks[S][t].last_error /\ tasks[S][t].iter = b)
               ~> (tasks[S][t].iter = 1 - b \/ Cancelled(tasks[S][t]))

\* A loop is asleep after a check that ended in an error, which was not its
\* first check; its service is monitoring.
C24_Witness ==
    \E S \in Services, t \in TaskIds :
        /\ tasks[S][t].last_error
        /\ tasks[S][t].iter = 0
        /\ tasks[S][t].pc = "sleep"
        /\ ~Cancelled(tasks[S][t])
        /\ svc_monitoring[S]

(***************************************************************************)
(* Claims about get_current_signals and is_market_open.                    *)
(***************************************************************************)

\* C37: every symbol of the watchlist that has a quote is among the symbols
\* a signal check evaluates, whatever the size of the watchlist.
C37_EveryQuotedSymbolEvaluated ==
    wlpc = "returned" =>
        \A s \in watchlist : s \in quoted => s \in evaluated

\* C38: the gate is closed on Saturday and Sunday, and from Monday to Friday
\* it is open exactly from 09:15:00 to 15:30:00, both included.
C38_OpenInMarketHours ==
    gatepc = "returned" =>
        (gate_answer <=>
            /\ gate_now.weekday \notin {5, 6}
            /\ second_of_day(gate_now) >= (9 * 60 + 15) * 60
            /\ \/ second_of_day(gate_now) < (15 * 60 + 30) * 60
               \/ /\ second_of_day(gate_now) = (15 * 60 + 30) * 60
                  /\ gate_now.microsecond = 0)

\* open on Friday at 15:30:00 sharp
C38_Witness ==
    /\ gatepc = "returned" /\ gate_answer
    /\ gate_now = [weekday |-> 4, hour |-> 15, minute |-> 30, second |-> 0,
                   microsecond |-> 0]

====
